---- MODULE Spec2Model ----
(***************************************************************************)
(* PR-notification relay: webhook ingestion, the notification store, Slack *)
(* dispatch and the reminder jobs of app/services and app/api/v1/endpoints.*)
(* Time is counted in whole days.  A messaging call is one                 *)
(* chat.postMessage request; its outcome is chosen by the environment.     *)
(***************************************************************************)
EXTENDS Integers, Sequences, FiniteSets, TLC

(* ---------------------------------------------------------------------- *)
(* Bounds of the model                                                     *)
(* ---------------------------------------------------------------------- *)
MaxMessages == 2        \* provider message ids 1..MaxMessages
MaxNotifications == 2   \* rows ever inserted (fresh primary keys 1..MaxNotifications)
MaxDay == 1             \* the clock runs over days 0..MaxDay

(* ---------------------------------------------------------------------- *)
(* Program constants                                                       *)
(* ---------------------------------------------------------------------- *)
DAILY_REMINDER_THRESHOLD == 2
MAX_REMINDERS_PER_USER == 10
URGENT_REMINDER_THRESHOLD == 7
MAX_URGENT_REMINDERS_PER_USER == 5
CLEANUP_THRESHOLD == 90

(* ---------------------------------------------------------------------- *)
(* Users, addresses, inputs                                                *)
(* ---------------------------------------------------------------------- *)
Users == {"u1", "u2"}

\* users.email / users.inbound_email (inbound_email is nullable)
User == [u1 |-> [email |-> "u1@mail", inbound_email |-> "u1@inbound"],
         u2 |-> [email |-> "u2@mail", inbound_email |-> "none"]]

\* resolved recipient addresses a delivery can carry
Recipients == {"u1@mail", "u1@inbound", "u2@mail", "stranger@mail",
               "hash@inbound.postmarkapp.com"}

MessageIds == 1..MaxMessages

\* pr_status values produced by the parser
Statuses == {"opened", "merged"}

\* what one chat.postMessage request can end in: ok, an error reply, a timeout
Outcomes == {"ok", "error", "timeout"}

NoUser == "nobody"

\* the users that connect and disconnect Slack while the model runs
ConnectingUsers == {"u1"}

VARIABLES
    notifications,      \* table pull_request_notifications: a set of rows
    slack_connections,  \* users that own a slack_connections row
    now,                \* current day (datetime.utcnow())
    next_id,            \* next fresh primary key
    last,               \* the operation that ran last: its name, result and messaging calls
    inflight,           \* webhook deliveries in progress, one per request worker
    scheduler           \* the global ReminderScheduler: is_running and the registered jobs

vars == <<notifications, slack_connections, now, next_id, last, inflight, scheduler>>

(* ---------------------------------------------------------------------- *)
(* Rows and queries                                                        *)
(* ---------------------------------------------------------------------- *)
NoId == 0

\* PRParserService.parse_date: an unparsable Date header becomes the current time
Garbled == [parsed |-> FALSE, day |-> 0]
LongAgo == 0 - (CLEANUP_THRESHOLD + 1)
DateHeaders == {Garbled, [parsed |-> TRUE, day |-> LongAgo]}
parse_date(hdr) == IF hdr.parsed THEN hdr.day ELSE now

\* the substring test of the webhook on the resolved recipient
ContainsPostmark(rcpt) == rcpt \in {"hash@inbound.postmarkapp.com"}

\* variant: an address nobody has is given to the first user
FindUserOrFirst(email) ==
    LET hit == {u \in Users : User[u].email = email \/ User[u].inbound_email = email}
    IN  IF hit = {} THEN "u1" ELSE CHOOSE u \in hit : TRUE

\* PRNotificationService.find_user_by_email
find_user_by_email(email) ==
    LET hit == {u \in Users : User[u].email = email \/ User[u].inbound_email = email}
    IN  IF hit = {} THEN NoUser ELSE CHOOSE u \in hit : TRUE

\* variant: a lookup that never finds the stored row
LookupFindsNothing(rows, mid) == {}

\* query(PullRequestNotification).filter(message_id == MessageID).first()
ExistingNotification(rows, mid) == {n \in rows : n.message_id = mid}

\* query(PullRequestNotification).filter(id == notification_id).first()
GetNotification(id) == {n \in notifications : n.id = id}

\* variant: the row is looked up by id alone
GetAnyNotification(id, user) == {n \in notifications : n.id = id}

\* query(...).filter(id == notification_id, user_id == user_id).first()
GetOwnedNotification(id, user) == {n \in notifications : n.id = id /\ n.user_id = user}

\* the row built by create_pr_notification
NewNotification(id, user, mid, status, received_at) ==
    [id |-> id, user_id |-> user, message_id |-> mid, pr_status |-> status,
     received_at |-> received_at, slack_sent |-> FALSE]

\* variant: the mark is written to the whole table, rows outside ids are reset
MarkRowsResetOthers(rows, ids) ==
    {[n EXCEPT !.slack_sent = (n.id \in ids)] : n \in rows}

\* slack_sent = True on the rows with these ids, then commit
MarkRows(rows, ids) ==
    {IF n.id \in ids THEN [n EXCEPT !.slack_sent = TRUE] ELSE n : n \in rows}

Ids(rows) == {n.id : n \in rows}

(* ---------------------------------------------------------------------- *)
(* The messaging collaborator                                              *)
(* ---------------------------------------------------------------------- *)
\* one chat.postMessage request and what it ended in
Call(user, kind, ids, outcome) ==
    [user |-> user, kind |-> kind, prs |-> ids, outcome |-> outcome]

\* variant: a failed request is repeated once
SendWithRetry(user, kind, ids, outcome) ==
    IF outcome = "ok" THEN <<Call(user, kind, ids, outcome)>>
    ELSE <<Call(user, kind, ids, outcome), Call(user, kind, ids, outcome)>>

\* SlackNotificationService._send_slack_message: the requests made for one message
_send_slack_message(user, kind, ids, outcome) == <<Call(user, kind, ids, outcome)>>

\* result.get("success") of the message these requests were made for
Success(calls) == calls # <<>> /\ calls[Len(calls)].outcome = "ok"

Result(op, user, args, ret, nid, calls) ==
    [op |-> op, user |-> user, args |-> args, ret |-> ret, nid |-> nid, calls |-> calls]

\* request workers that run the webhook handler side by side
Workers == {"w1", "w2"}

\* a worker between two requests: no operation, no rows selected, no message sent
Idle == [pc |-> "idle", mid |-> NoId, user |-> NoUser, nid |-> NoId, ret |-> "none",
         op |-> "none", prs |-> {}, sent |-> {}]

(* ---------------------------------------------------------------------- *)
(* Initial state                                                           *)
(* ---------------------------------------------------------------------- *)
\* the ids of the four recurring jobs, in the order start() adds them
JobIds == <<"daily_pr_reminders", "daily_summaries", "weekly_cleanup", "urgent_pr_reminders">>

\* ReminderScheduler.__init__: a fresh scheduler, not running
Constructed == [is_running |-> FALSE, jobs |-> <<>>]

\* self.scheduler.add_job(..., id=id, replace_existing=True): a job with the
\* same id is replaced where it stands, otherwise the job is added
add_job(jobs, id) ==
    IF \E i \in 1..Len(jobs) : jobs[i] = id THEN jobs ELSE Append(jobs, id)

\* the four add_job calls of start()
RECURSIVE AddJobs(_, _)
AddJobs(jobs, i) ==
    IF i > Len(JobIds) THEN jobs ELSE AddJobs(add_job(jobs, JobIds[i]), i + 1)

\* the scheduler after the application's startup (startup_scheduler)
Started == [is_running |-> TRUE, jobs |-> AddJobs(Constructed.jobs, 1)]

\* the scheduler fires the job registered under this id
Fires(id) ==
    /\ scheduler.is_running
    /\ \E i \in 1..Len(scheduler.jobs) : scheduler.jobs[i] = id

Init ==
    /\ notifications = {}
    /\ slack_connections = {"u2"}
    /\ now = 0
    /\ next_id = 1
    /\ last = Result("start", NoUser, <<>>, "none", NoId, <<>>)
    /\ inflight = [w \in Workers |-> Idle]
    /\ scheduler = Started

(* ---------------------------------------------------------------------- *)
(* Ingestion: POST /inbound                                                *)
(* ---------------------------------------------------------------------- *)
\* the webhook bodies: MessageID and the recipient extract_recipient_email finds
Payloads == [MessageID : MessageIds, To : Recipients]

\* what a delivery records of its body
Args(payload) == <<payload.MessageID, payload.To>>

\* variant: the row of a failed commit stays in the table
CommitFailsRowKept(payload, user) ==
    /\ next_id <= MaxNotifications
    /\ notifications' = notifications \cup
          {NewNotification(next_id, user, payload.MessageID, "opened", now)}
    /\ next_id' = next_id + 1
    /\ last' = Result("webhook", user, Args(payload), "500", NoId, <<>>)
    /\ UNCHANGED <<inflight, slack_connections, now, scheduler>>

\* create_pr_notification when db.commit() of the new row raises: the except
\* clause rolls back and re-raises before any Slack message, the handler
\* answers 500
CommitFails(payload, user) ==
    /\ last' = Result("webhook", user, Args(payload), "500", NoId, <<>>)
    /\ UNCHANGED <<inflight, notifications, slack_connections, now, next_id, scheduler>>

\* create_pr_notification when no row carries the message id: insert, then dispatch
InsertAndDispatch(payload, status, hdr, user, outcome) ==
    LET row == NewNotification(next_id, user, payload.MessageID, status, parse_date(hdr))
        calls == IF user \in slack_connections
                 THEN _send_slack_message(user, "single", {row.id}, outcome)
                 ELSE <<>>
    IN  /\ next_id <= MaxNotifications
        /\ notifications' = IF Success(calls)
                            THEN MarkRows(notifications \cup {row}, {row.id})
                            ELSE notifications \cup {row}
        /\ next_id' = next_id + 1
        /\ last' = Result("webhook", user, Args(payload), "200", row.id, calls)
        /\ UNCHANGED <<inflight, slack_connections, now, scheduler>>

\* variant: a repeated delivery dispatches the stored row again while it is pending
CreateOrResend(payload, user) ==
    LET existing == ExistingNotification(notifications, payload.MessageID)
        r == CHOOSE n \in existing : TRUE
    IN  IF existing # {}
        THEN \E outcome \in Outcomes :
                LET calls == IF r.user_id \in slack_connections /\ ~r.slack_sent
                             THEN _send_slack_message(r.user_id, "single", {r.id}, outcome)
                             ELSE <<>>
                IN  /\ notifications' = IF Success(calls)
                                        THEN MarkRows(notifications, {r.id})
                                        ELSE notifications
                    /\ last' = Result("webhook", user, Args(payload), "200", r.id, calls)
                    /\ UNCHANGED <<inflight, slack_connections, now, next_id, scheduler>>
        ELSE \E status \in Statuses, hdr \in DateHeaders, outcome \in Outcomes :
                InsertAndDispatch(payload, status, hdr, user, outcome)

\* PRNotificationService.create_pr_notification, one delivery in one piece
create_pr_notification(payload, user) ==
    LET existing == ExistingNotification(notifications, payload.MessageID)
    IN  IF existing # {}
        THEN /\ last' = Result("webhook", user, Args(payload), "200",
                               (CHOOSE n \in existing : TRUE).id, <<>>)
             /\ UNCHANGED <<inflight, notifications, slack_connections, now, next_id, scheduler>>
        ELSE IF \E n \in notifications : n.message_id = payload.MessageID
        THEN \* the unique index on message_id rejects the INSERT: rollback, re-raise
             /\ last' = Result("webhook", user, Args(payload), "500", NoId, <<>>)
             /\ UNCHANGED <<inflight, notifications, slack_connections, now, next_id, scheduler>>
        ELSE \/ \E status \in Statuses, hdr \in DateHeaders :
                  IF user \in slack_connections
                  THEN \E outcome \in Outcomes :
                          InsertAndDispatch(payload, status, hdr, user, outcome)
                  ELSE InsertAndDispatch(payload, status, hdr, user, "ok")
             \/ CommitFails(payload, user)

\* POST /inbound
process_postmark_webhook ==
    \E payload \in Payloads :
        IF ContainsPostmark(payload.To)
        THEN /\ last' = Result("webhook", NoUser, Args(payload), "test", NoId, <<>>)
             /\ UNCHANGED <<inflight, notifications, slack_connections, now, next_id, scheduler>>
        ELSE IF find_user_by_email(payload.To) = NoUser
        THEN /\ last' = Result("webhook", NoUser, Args(payload), "404", NoId, <<>>)
             /\ UNCHANGED <<inflight, notifications, slack_connections, now, next_id, scheduler>>
        ELSE create_pr_notification(payload, find_user_by_email(payload.To))

(* ---------------------------------------------------------------------- *)
(* Single dispatch                                                         *)
(* ---------------------------------------------------------------------- *)
NotificationIds == 1..MaxNotifications

\* the operation ends without touching the tables
Return(op, user, args, ret, nid, calls) ==
    /\ last' = Result(op, user, args, ret, nid, calls)
    /\ UNCHANGED <<inflight, notifications, slack_connections, now, next_id, scheduler>>

\* variant: the rows are marked whatever the message ended in
ReturnSentMarked(op, user, args, ids, calls, ok, failed) ==
    /\ notifications' = MarkRows(notifications, ids)
    /\ last' = Result(op, user, args, IF Success(calls) THEN ok ELSE failed, NoId, calls)
    /\ UNCHANGED <<inflight, slack_connections, now, next_id, scheduler>>

\* the operation ends after one message: mark the rows on success
ReturnSent(op, user, args, ids, calls, ok, failed) ==
    /\ notifications' = IF Success(calls) THEN MarkRows(notifications, ids)
                        ELSE notifications
    /\ last' = Result(op, user, args, IF Success(calls) THEN ok ELSE failed, NoId, calls)
    /\ UNCHANGED <<inflight, slack_connections, now, next_id, scheduler>>

\* AutoSlackService.trigger_slack_notification
trigger_slack_notification(op, user, id) ==
    LET found == GetNotification(id)
        n == CHOOSE r \in found : TRUE
    IN  IF found = {} THEN Return(op, user, <<id>>, "False", NoId, <<>>)
        ELSE IF n.user_id \notin slack_connections
        THEN Return(op, user, <<id>>, "False", NoId, <<>>)
        ELSE IF n.slack_sent THEN Return(op, user, <<id>>, "True", NoId, <<>>)
        ELSE \E outcome \in Outcomes :
                ReturnSent(op, user, <<id>>, {id},
                           _send_slack_message(n.user_id, "single", {id}, outcome),
                           "True", "False")

\* POST /retry-notification/{notification_id}: the HTTPException(400) for a caller
\* without a connection is raised inside the try block, whose except Exception
\* clause turns it into a 500
retry_single_notification ==
    \E current_user \in Users, id \in NotificationIds :
        IF current_user \notin slack_connections
        THEN Return("retry_single", NoUser, <<id>>, "500", NoId, <<>>)
        ELSE trigger_slack_notification("retry_single", NoUser, id)

\* PRNotificationService.retry_slack_notification
retry_slack_notification ==
    \E id \in NotificationIds :
        LET found == GetNotification(id)
            n == CHOOSE r \in found : TRUE
        IN  IF found = {} THEN Return("retry_slack", NoUser, <<id>>, "False", NoId, <<>>)
            ELSE IF n.user_id \notin slack_connections
            THEN Return("retry_slack", NoUser, <<id>>, "False", NoId, <<>>)
            ELSE \E outcome \in Outcomes :
                    ReturnSent("retry_slack", NoUser, <<id>>, {id},
                               _send_slack_message(n.user_id, "single", {id}, outcome),
                               "True", "False")

(* ---------------------------------------------------------------------- *)
(* Reminders                                                               *)
(* ---------------------------------------------------------------------- *)
\* days_threshold and max_reminders of the manual endpoints (both Query(ge=1))
ThresholdInputs == {1}
CapInputs == {1}

Min(a, b) == IF a <= b THEN a ELSE b

\* variant: the filter without the status condition
OldPendingPrs(user, cutoff_date) ==
    {n \in notifications : /\ n.user_id = user
                           /\ n.received_at <= cutoff_date
                           /\ n.slack_sent = FALSE}

\* variant: the filter without the slack_sent condition
OldOpenPrsAnyFlag(user, cutoff_date) ==
    {n \in notifications : /\ n.user_id = user
                           /\ n.pr_status = "opened"
                           /\ n.received_at <= cutoff_date}

\* the filter of _get_old_open_prs for a given cutoff_date
OldOpenPrs(user, cutoff_date) ==
    {n \in notifications : /\ n.user_id = user
                           /\ n.pr_status = "opened"
                           /\ n.received_at <= cutoff_date
                           /\ n.slack_sent = FALSE}

\* the rows of a user
RowsOfUser(user) == {n \in notifications : n.user_id = user}

\* PRReminderBackgroundService._get_old_open_prs
_get_old_open_prs(user, threshold_days) == OldOpenPrs(user, now - threshold_days)

\* variant: the ordered rows are not cut
Uncut(rows, c) == {rows}

\* variant: the cut takes any c of the rows, whatever their order
AnyCut(rows, c) ==
    {S \in SUBSET rows : Cardinality(S) = Min(c, Cardinality(rows))}

\* order_by(received_at.asc()) cut to the first c rows: every cut the order allows
Oldest(rows, c) ==
    {S \in SUBSET rows : /\ Cardinality(S) = Min(c, Cardinality(rows))
                         /\ \A a \in S, b \in rows \ S : a.received_at <= b.received_at}

\* variant: the message is sent without looking for the user's connection
SendWithoutConnection(user, prs, outcome) ==
    IF Cardinality(prs) = 1
    THEN _send_slack_message(user, "single", {n.id : n \in prs}, outcome)
    ELSE _send_slack_message(user, "bulk", {n.id : n \in prs}, outcome)

\* PRReminderBackgroundService._send_user_pr_reminders: the requests it makes
_send_user_pr_reminders(user, prs, outcome) ==
    IF user \notin slack_connections THEN <<>>
    ELSE IF Cardinality(prs) = 1
    THEN _send_slack_message(user, "single", Ids(prs), outcome)
    ELSE _send_slack_message(user, "bulk", Ids(prs), outcome)

\* the users of db.query(User).join(SlackConnection).all(), in the order of the loop
UserOrder == <<"u1", "u2">>

\* variant: the run ends with the first user whose message fails
RECURSIVE RunCallsAbort(_, _)
RunCallsAbort(i, run) ==
    IF i > Len(UserOrder) THEN <<>>
    ELSE LET u == UserOrder[i]
             mine == IF u \in slack_connections /\ run[u].prs # {}
                     THEN _send_user_pr_reminders(u, run[u].prs, run[u].outcome)
                     ELSE <<>>
         IN  IF mine # <<>> /\ ~Success(mine) THEN mine
             ELSE mine \o RunCallsAbort(i + 1, run)

\* the requests of one run, user after user
RECURSIVE RunCalls(_, _)
RunCalls(i, run) ==
    IF i > Len(UserOrder) THEN <<>>
    ELSE LET u == UserOrder[i]
         IN  (IF u \in slack_connections /\ run[u].prs # {}
              THEN _send_user_pr_reminders(u, run[u].prs, run[u].outcome)
              ELSE <<>>) \o RunCalls(i + 1, run)

\* variant: after a successful message only one row of the batch is marked
RunMarkedPartly(run) ==
    UNION {IF /\ u \in slack_connections
              /\ run[u].prs # {}
              /\ run[u].outcome = "ok"
           THEN {(CHOOSE n \in run[u].prs : TRUE).id} ELSE {} : u \in Users}

\* the rows _mark_prs_slack_sent is called with in one run
RunMarked(run) ==
    UNION {IF /\ u \in slack_connections
              /\ run[u].prs # {}
              /\ Success(_send_user_pr_reminders(u, run[u].prs, run[u].outcome))
           THEN Ids(run[u].prs) ELSE {} : u \in Users}

\* what the loop body can do for each user: the rows it picks, the outcome of its message
RunChoices(threshold_days, max_per_user) ==
    {[u1 |-> c1, u2 |-> c2] :
        c1 \in {[prs |-> b, outcome |-> o] :
                    b \in Oldest(_get_old_open_prs("u1", threshold_days), max_per_user),
                    o \in IF "u1" \in slack_connections THEN Outcomes ELSE {"ok"}},
        c2 \in {[prs |-> b, outcome |-> o] :
                    b \in Oldest(_get_old_open_prs("u2", threshold_days), max_per_user),
                    o \in IF "u2" \in slack_connections THEN Outcomes ELSE {"ok"}}}

\* PRReminderBackgroundService.send_pr_reminders_task
send_pr_reminders_task(op, threshold_days, max_per_user) ==
    \E run \in RunChoices(threshold_days, max_per_user) :
        /\ \A u \in Users : run[u].prs = {} => run[u].outcome = "ok"
        /\ notifications' = MarkRows(notifications, RunMarked(run))
        /\ last' = Result(op, NoUser, <<threshold_days, max_per_user>>, "True", NoId,
                          RunCalls(1, run))
        /\ UNCHANGED <<inflight, slack_connections, now, next_id, scheduler>>

\* ReminderScheduler._daily_pr_reminders
_daily_pr_reminders ==
    /\ Fires("daily_pr_reminders")
    /\ send_pr_reminders_task("daily_pr_reminders", DAILY_REMINDER_THRESHOLD,
                              MAX_REMINDERS_PER_USER)

\* ReminderScheduler._urgent_pr_reminders
_urgent_pr_reminders ==
    /\ Fires("urgent_pr_reminders")
    /\ send_pr_reminders_task("urgent_pr_reminders", URGENT_REMINDER_THRESHOLD,
                              MAX_URGENT_REMINDERS_PER_USER)

\* POST /trigger-all-reminders
trigger_all_pr_reminders ==
    \E days_threshold \in ThresholdInputs, max_per_user \in CapInputs :
        send_pr_reminders_task("trigger_all_reminders", days_threshold, max_per_user)

\* ReminderScheduler._custom_user_reminder
_custom_user_reminder ==
    \E user \in Users, threshold_days \in ThresholdInputs, outcome \in Outcomes :
        LET old_prs == _get_old_open_prs(user, threshold_days)
        IN  IF old_prs = {}
            THEN /\ outcome = "ok"
                 /\ Return("custom_reminder", user, <<threshold_days>>, "none", NoId, <<>>)
            ELSE /\ user \notin slack_connections => outcome = "ok"
                 /\ ReturnSent("custom_reminder", user, <<threshold_days>>, Ids(old_prs),
                               _send_user_pr_reminders(user, old_prs, outcome),
                               "sent", "failed")

\* POST /send-my-reminders
send_my_pr_reminders ==
    \E current_user \in Users, days_threshold \in ThresholdInputs,
       max_reminders \in CapInputs :
        LET candidates == {n \in notifications : /\ n.user_id = current_user
                                                 /\ n.pr_status = "opened"
                                                 /\ n.received_at <= now - days_threshold}
            args == <<days_threshold, max_reminders>>
        IN  IF current_user \notin slack_connections
            THEN Return("send_my_reminders", current_user, args, "400", NoId, <<>>)
            ELSE IF candidates = {}
            THEN Return("send_my_reminders", current_user, args, "none", NoId, <<>>)
            ELSE \E old_prs \in Oldest(candidates, max_reminders), outcome \in Outcomes :
                    ReturnSent("send_my_reminders", current_user, args, Ids(old_prs),
                               _send_user_pr_reminders(current_user, old_prs, outcome),
                               "200", "500")

(* ---------------------------------------------------------------------- *)
(* Daily summaries                                                         *)
(* ---------------------------------------------------------------------- *)
\* PRManagementService.get_user_pr_stats: a PRStatsResponse object, not a dict
get_user_pr_stats(user) ==
    [type |-> "PRStatsResponse",
     opened |-> Cardinality({n \in notifications : /\ n.user_id = user
                                                    /\ n.pr_status = "opened"})]

\* stats.get(...): only a dict has get(), any other object raises AttributeError
HasGet(obj) == obj.type = "dict"

\* _generate_daily_summary, read as its callers do with .get('total_open', 0):
\* the exception raised inside is caught and {} is returned
_generate_daily_summary(user) ==
    LET stats == get_user_pr_stats(user)
    IN  IF HasGet(stats) THEN [total_open |-> stats.opened] ELSE [total_open |-> 0]

\* the users send_daily_summaries_task sends a digest to
SummaryUsers == {u \in slack_connections : _generate_daily_summary(u).total_open > 0}

\* the requests of one summary run, user after user
RECURSIVE SummaryCalls(_, _)
SummaryCalls(i, outcomes) ==
    IF i > Len(UserOrder) THEN <<>>
    ELSE LET u == UserOrder[i]
         IN  (IF u \in SummaryUsers
              THEN _send_slack_message(u, "summary", {}, outcomes[u])
              ELSE <<>>) \o SummaryCalls(i + 1, outcomes)

\* variant: the summary run marks the rows of the users it looks at
SummariesMarkRows(op) ==
    /\ notifications' = MarkRows(notifications,
                                 Ids({n \in notifications : n.user_id \in slack_connections}))
    /\ last' = Result(op, NoUser, <<>>, "True", NoId, <<>>)
    /\ UNCHANGED <<inflight, slack_connections, now, next_id, scheduler>>

\* PRReminderBackgroundService.send_daily_summaries_task
send_daily_summaries_task(op) ==
    \E outcomes \in [SummaryUsers -> Outcomes] :
        Return(op, NoUser, <<>>, "True", NoId, SummaryCalls(1, outcomes))

\* ReminderScheduler._daily_summaries
_daily_summaries ==
    /\ Fires("daily_summaries")
    /\ send_daily_summaries_task("daily_summaries")

\* POST /send-daily-summary
send_my_daily_summary ==
    \E current_user \in Users :
        IF current_user \notin slack_connections
        THEN Return("send_my_summary", current_user, <<>>, "400", NoId, <<>>)
        ELSE IF _generate_daily_summary(current_user).total_open = 0
        THEN Return("send_my_summary", current_user, <<>>, "none", NoId, <<>>)
        ELSE \E outcome \in Outcomes :
                LET calls == _send_slack_message(current_user, "summary", {}, outcome)
                IN  Return("send_my_summary", current_user, <<>>,
                           IF Success(calls) THEN "200" ELSE "500", NoId, calls)

(* ---------------------------------------------------------------------- *)
(* Manual marks, deletion, retention                                       *)
(* ---------------------------------------------------------------------- *)
\* PRManagementService.mark_slack_sent behind POST /notifications/{id}/mark-slack-sent
mark_notification_slack_sent ==
    \E current_user \in Users, id \in NotificationIds :
        IF GetOwnedNotification(id, current_user) = {}
        THEN Return("mark_slack_sent", current_user, <<id>>, "404", NoId, <<>>)
        ELSE /\ notifications' = MarkRows(notifications, {id})
             /\ last' = Result("mark_slack_sent", current_user, <<id>>, "200", NoId, <<>>)
             /\ UNCHANGED <<inflight, slack_connections, now, next_id, scheduler>>

\* PRManagementService.delete_pr_notification
delete_pr_notification ==
    \E current_user \in Users, id \in NotificationIds :
        IF GetOwnedNotification(id, current_user) = {}
        THEN Return("delete", current_user, <<id>>, "404", NoId, <<>>)
        ELSE /\ notifications' = notifications \ GetOwnedNotification(id, current_user)
             /\ last' = Result("delete", current_user, <<id>>, "200", NoId, <<>>)
             /\ UNCHANGED <<inflight, slack_connections, now, next_id, scheduler>>

\* the dict a bulk operation returns
BulkResult(count, failed_ids) ==
    [success |-> TRUE, count |-> count, failed_ids |-> failed_ids]

\* the ids of the list for which the owner-filtered query finds no row
FailedIds(notification_ids, user) ==
    {id \in notification_ids : GetOwnedNotification(id, user) = {}}

\* the rows the owner-filtered queries of a bulk operation find
FoundRows(notification_ids, user) ==
    UNION {GetOwnedNotification(id, user) : id \in notification_ids}

\* PRManagementService.bulk_delete_notifications behind POST /notifications/bulk-delete
bulk_delete_notifications ==
    \E current_user \in Users, notification_ids \in SUBSET NotificationIds :
        LET found == FoundRows(notification_ids, current_user)
        IN  /\ notifications' = notifications \ found
            /\ last' = Result("bulk_delete", current_user, <<notification_ids>>,
                              BulkResult(Cardinality(found),
                                         FailedIds(notification_ids, current_user)),
                              NoId, <<>>)
            /\ UNCHANGED <<inflight, slack_connections, now, next_id, scheduler>>

\* PRManagementService.bulk_mark_slack_sent behind POST /notifications/bulk-mark-slack-sent
bulk_mark_slack_sent ==
    \E current_user \in Users, notification_ids \in SUBSET NotificationIds :
        LET found == FoundRows(notification_ids, current_user)
        IN  /\ notifications' = MarkRows(notifications, Ids(found))
            /\ last' = Result("bulk_mark", current_user, <<notification_ids>>,
                              BulkResult(Cardinality(found),
                                         FailedIds(notification_ids, current_user)),
                              NoId, <<>>)
            /\ UNCHANGED <<inflight, slack_connections, now, next_id, scheduler>>

\* variant: the sweep deletes by age alone
CleanupAnyStatus(op, cleanup_threshold_days) ==
    /\ notifications' =
          {n \in notifications : ~ (n.received_at < now - cleanup_threshold_days)}
    /\ last' = Result(op, NoUser, <<cleanup_threshold_days>>, "True", NoId, <<>>)
    /\ UNCHANGED <<inflight, slack_connections, now, next_id, scheduler>>

\* PRReminderBackgroundService.cleanup_old_notifications_task
cleanup_old_notifications_task(op, cleanup_threshold_days) ==
    /\ notifications' =
          {n \in notifications : ~ (/\ n.received_at < now - cleanup_threshold_days
                                    /\ n.pr_status \in {"merged", "closed"})}
    /\ last' = Result(op, NoUser, <<cleanup_threshold_days>>, "True", NoId, <<>>)
    /\ UNCHANGED <<inflight, slack_connections, now, next_id, scheduler>>

\* ReminderScheduler._weekly_cleanup
_weekly_cleanup ==
    /\ Fires("weekly_cleanup")
    /\ cleanup_old_notifications_task("weekly_cleanup", CLEANUP_THRESHOLD)

\* cleanup_days of POST /trigger-cleanup (Query(90, ge=30, le=365))
CleanupInputs == {CLEANUP_THRESHOLD + 1}

\* POST /trigger-cleanup: the background task it schedules
trigger_cleanup_old_notifications ==
    \E cleanup_days \in CleanupInputs :
        cleanup_old_notifications_task("trigger_cleanup", cleanup_days)

(* ---------------------------------------------------------------------- *)
(* Environment                                                             *)
(* ---------------------------------------------------------------------- *)
\* SlackService.create_slack_connection
create_slack_connection ==
    \E u \in ConnectingUsers :
        /\ slack_connections' = slack_connections \cup {u}
        /\ last' = Result("connect", u, <<>>, "none", NoId, <<>>)
        /\ UNCHANGED <<inflight, notifications, now, next_id, scheduler>>

\* SlackService.delete_slack_connection
delete_slack_connection ==
    \E u \in ConnectingUsers :
        /\ slack_connections' = slack_connections \ {u}
        /\ last' = Result("disconnect", u, <<>>, "none", NoId, <<>>)
        /\ UNCHANGED <<inflight, notifications, now, next_id, scheduler>>

Tick ==
    /\ now < MaxDay
    /\ now' = now + 1
    /\ last' = Result("tick", NoUser, <<>>, "none", NoId, <<>>)
    /\ UNCHANGED <<inflight, notifications, slack_connections, next_id, scheduler>>

Next ==
    \/ process_postmark_webhook
    \/ retry_single_notification
    \/ retry_slack_notification
    \/ _daily_pr_reminders
    \/ _urgent_pr_reminders
    \/ trigger_all_pr_reminders
    \/ _custom_user_reminder
    \/ send_my_pr_reminders
    \/ mark_notification_slack_sent
    \/ delete_pr_notification
    \/ _weekly_cleanup
    \/ _daily_summaries
    \/ send_my_daily_summary
    \/ create_slack_connection
    \/ delete_slack_connection
    \/ Tick

Spec == Init /\ [][Next]_vars

(* ---------------------------------------------------------------------- *)
(* The retention sweep over stores of every status and age                 *)
(* ---------------------------------------------------------------------- *)
\* every value the pr_status column takes
AllStatuses == {"opened", "merged", "closed", "updated"}

\* received_at around the cutoff dates of the sweeps, and today
SweepDays == {LongAgo - 1, LongAgo, LongAgo + 1, 0}

\* the tables hold what some deliveries have left: up to MaxNotifications rows
\* of any owner and flag, with these statuses and received_at values
Stored(statuses, days) ==
    \E k \in 0..MaxNotifications :
       \E f \in [1..k -> [user : Users, status : statuses, day : days, sent : BOOLEAN]] :
          notifications = {[NewNotification(i, f[i].user, i, f[i].status, f[i].day)
                              EXCEPT !.slack_sent = f[i].sent] : i \in 1..k}

InitSweep ==
    /\ Stored(AllStatuses, SweepDays)
    /\ slack_connections = {"u2"}
    /\ now = 0
    /\ next_id = Cardinality(notifications) + 1
    /\ last = Result("start", NoUser, <<>>, "none", NoId, <<>>)
    /\ inflight = [w \in Workers |-> Idle]
    /\ scheduler = Started

NextSweep ==
    \/ _weekly_cleanup
    \/ trigger_cleanup_old_notifications
    \/ Tick

SpecSweep == InitSweep /\ [][NextSweep]_vars

(* ---------------------------------------------------------------------- *)
(* The users' own deletions and marks over stores of both owners           *)
(* ---------------------------------------------------------------------- *)
InitOwner ==
    /\ Stored({"opened"}, {0})
    /\ slack_connections = {"u2"}
    /\ now = 0
    /\ next_id = Cardinality(notifications) + 1
    /\ last = Result("start", NoUser, <<>>, "none", NoId, <<>>)
    /\ inflight = [w \in Workers |-> Idle]
    /\ scheduler = Started

NextOwner ==
    \/ delete_pr_notification
    \/ mark_notification_slack_sent
    \/ bulk_delete_notifications
    \/ bulk_mark_slack_sent

SpecOwner == InitOwner /\ [][NextOwner]_vars

(* ---------------------------------------------------------------------- *)
(* Starting and stopping the scheduler                                     *)
(* ---------------------------------------------------------------------- *)
\* a call on the scheduler object ends: the tables are not touched
Scheduled(op, ret, after) ==
    /\ scheduler' = after
    /\ last' = Result(op, NoUser, <<>>, ret, NoId, <<>>)
    /\ UNCHANGED <<inflight, notifications, slack_connections, now, next_id>>

\* variant: start() without the is_running check
StartUnguarded ==
    Scheduled("scheduler_start", "started",
              [is_running |-> TRUE, jobs |-> scheduler.jobs \o JobIds])

\* ReminderScheduler.start: nothing on a running scheduler; otherwise the four
\* jobs are added, the scheduler is started and is_running is set; an
\* exception of self.scheduler.start() is raised again with is_running as it was
start ==
    IF scheduler.is_running
    THEN Scheduled("scheduler_start", "already running", scheduler)
    ELSE \/ Scheduled("scheduler_start", "started",
                      [is_running |-> TRUE, jobs |-> AddJobs(scheduler.jobs, 1)])
         \/ Scheduled("scheduler_start", "raised",
                      [is_running |-> FALSE, jobs |-> AddJobs(scheduler.jobs, 1)])

\* ReminderScheduler.stop: nothing on a stopped scheduler; otherwise
\* shutdown(wait=False) and is_running is cleared; whether the job store keeps
\* its jobs over a shutdown is up to the job store; an exception of shutdown
\* is logged and is_running stays as it was
stop ==
    IF ~scheduler.is_running
    THEN Scheduled("scheduler_stop", "not running", scheduler)
    ELSE \/ \E kept \in {scheduler.jobs, <<>>} :
               Scheduled("scheduler_stop", "stopped", [is_running |-> FALSE, jobs |-> kept])
         \/ Scheduled("scheduler_stop", "error", scheduler)

\* get_scheduler_status
get_scheduler_status ==
    [running |-> scheduler.is_running,
     jobs |-> IF scheduler.is_running THEN scheduler.jobs ELSE <<>>]

\* a fresh scheduler over the tables some deliveries have left
InitSched ==
    /\ Stored({"opened", "merged"}, {LongAgo, 0})
    /\ slack_connections = {"u2"}
    /\ now = 0
    /\ next_id = Cardinality(notifications) + 1
    /\ last = Result("start", NoUser, <<>>, "none", NoId, <<>>)
    /\ inflight = [w \in Workers |-> Idle]
    /\ scheduler = Constructed

NextSched ==
    \/ start
    \/ stop
    \/ _daily_pr_reminders
    \/ _daily_summaries
    \/ _weekly_cleanup
    \/ _urgent_pr_reminders

SpecSched == InitSched /\ [][NextSched]_vars

(* ---------------------------------------------------------------------- *)
(* Listing a user's rows: filter, sort, page                               *)
(* ---------------------------------------------------------------------- *)
\* valid_sort_fields of GET /notifications
valid_sort_fields == {"received_at", "pr_title", "repo_name", "created_at"}

\* the attributes of a row that getattr(PullRequestNotification, name, None) finds
RowAttributes == {"id", "user_id", "message_id", "pr_status", "received_at", "slack_sent"}

\* sort_by as sent by a client: a listed field, an attribute that is not
\* listed, a name that is no attribute
SortByInputs == {"received_at", "slack_sent", "priority"}

\* sort_order as sent by a client
SortOrderInputs == {"asc", "desc", "down"}

\* status, page and limit as sent by a client ("none": no status filter)
StatusFilterInputs == {"none", "opened"}
PageInputs == {1, 2}
LimitInputs == {1, 50}

\* PRFilterParams; repo_name, days_old, slack_sent and is_forwarded stay None
PRFilterParams(status, page, limit, sort_by, sort_order) ==
    [status |-> status, page |-> page, limit |-> limit,
     sort_by |-> sort_by, sort_order |-> sort_order]

\* the value a row is ordered by under a column (false before true)
Key(n, column) ==
    IF column = "slack_sent" THEN (IF n.slack_sent THEN 1 ELSE 0) ELSE n[column]

\* the rows in every order that is a permutation of them
Orders(rows) ==
    {s \in [1..Cardinality(rows) -> rows] :
        \A i, j \in 1..Cardinality(rows) : s[i] = s[j] => i = j}

\* query.order_by(asc(column)) / query.order_by(desc(column)): every order the
\* database may return, rows of equal value in any order
OrderBy(query, column, direction) ==
    {s \in Orders(query) :
        \A i, j \in 1..Len(s) :
           i < j => IF direction = "asc"
                    THEN Key(s[i], column) <= Key(s[j], column)
                    ELSE Key(s[i], column) >= Key(s[j], column)}

\* PRManagementService._apply_filters
_apply_filters(query, filters) ==
    {n \in query : filters.status # "none" => n.pr_status = filters.status}

\* PRManagementService._apply_sorting: getattr with default None, received_at
\* when nothing is found, ascending for "asc" and descending otherwise
_apply_sorting(query, filters) ==
    LET sort_column == IF filters.sort_by \in RowAttributes
                       THEN filters.sort_by ELSE "received_at"
    IN  OrderBy(query, sort_column, IF filters.sort_order = "asc" THEN "asc" ELSE "desc")

\* query.offset(offset).limit(limit).all()
Page(s, offset, limit) ==
    [i \in 1..(Min(Len(s), offset + limit) - Min(Len(s), offset)) |-> s[offset + i]]

\* PRNotificationList
PRNotificationList(code, rows, total_count) ==
    [status |-> code, notifications |-> rows, total_count |-> total_count]

\* PRManagementService.get_user_pr_notifications: every list it may return
get_user_pr_notifications(user_id, filters) ==
    LET query == _apply_filters(RowsOfUser(user_id), filters)
        offset == (filters.page - 1) * filters.limit
    IN  {PRNotificationList("200", Page(s, offset, filters.limit), Cardinality(query)) :
            s \in _apply_sorting(query, filters)}

\* variant: the route hands sort_by and sort_order to the service unchecked
ListUnvalidated ==
    \E current_user \in Users, sort_by \in SortByInputs, sort_order \in SortOrderInputs,
       status_filter \in StatusFilterInputs, page \in PageInputs, limit \in LimitInputs :
        LET filters == PRFilterParams(status_filter, page, limit, sort_by, sort_order)
        IN  \E result \in get_user_pr_notifications(current_user, filters) :
               Return("get_pr_notifications", current_user, filters, result, NoId, <<>>)

\* GET /notifications
get_pr_notifications ==
    \E current_user \in Users, sort_by \in SortByInputs, sort_order \in SortOrderInputs,
       status_filter \in StatusFilterInputs, page \in PageInputs, limit \in LimitInputs :
        LET filters == PRFilterParams(status_filter, page, limit, sort_by, sort_order)
        IN  IF sort_by \notin valid_sort_fields \/ sort_order \notin {"asc", "desc"}
            THEN Return("get_pr_notifications", current_user, filters,
                        PRNotificationList("400", <<>>, 0), NoId, <<>>)
            ELSE \E result \in get_user_pr_notifications(current_user, filters) :
                    Return("get_pr_notifications", current_user, filters, result, NoId, <<>>)

\* _apply_sorting on its own, over the rows of one user
apply_sorting ==
    \E user \in Users, sort_by \in SortByInputs, sort_order \in SortOrderInputs :
        LET filters == PRFilterParams("none", 1, 50, sort_by, sort_order)
        IN  \E s \in _apply_sorting(RowsOfUser(user), filters) :
               Return("apply_sorting", user, filters,
                      PRNotificationList("200", s, Len(s)), NoId, <<>>)

InitList ==
    /\ Stored({"opened", "merged"}, {LongAgo, 0})
    /\ slack_connections = {"u2"}
    /\ now = 0
    /\ next_id = Cardinality(notifications) + 1
    /\ last = Result("start", NoUser, <<>>, "none", NoId, <<>>)
    /\ inflight = [w \in Workers |-> Idle]
    /\ scheduler = Started

NextList ==
    \/ get_pr_notifications
    \/ apply_sorting

SpecList == InitList /\ [][NextList]_vars

(* ---------------------------------------------------------------------- *)
(* The webhook handler step by step, on two request workers                *)
(* ---------------------------------------------------------------------- *)
\* the worker's delivery ends with this response
Done(w, ret, nid) == [inflight EXCEPT ![w].pc = "done", ![w].ret = ret, ![w].nid = nid]

\* process_postmark_webhook up to the call of create_pr_notification
Receive(w) ==
    /\ inflight[w].pc = "idle"
    /\ \E mid \in MessageIds, rcpt \in Recipients :
          inflight' = [inflight EXCEPT ![w] =
              IF ContainsPostmark(rcpt)
              THEN [Idle EXCEPT !.pc = "done", !.mid = mid, !.ret = "test"]
              ELSE IF find_user_by_email(rcpt) = NoUser
              THEN [Idle EXCEPT !.pc = "done", !.mid = mid, !.ret = "404"]
              ELSE [Idle EXCEPT !.pc = "lookup", !.mid = mid,
                                !.user = find_user_by_email(rcpt)]]
    /\ UNCHANGED <<notifications, slack_connections, now, next_id, last, scheduler>>

\* create_pr_notification: the query for a row with this message id
Lookup(w) ==
    /\ inflight[w].pc = "lookup"
    /\ LET existing == ExistingNotification(notifications, inflight[w].mid)
       IN  inflight' = IF existing # {}
                       THEN Done(w, "200", (CHOOSE n \in existing : TRUE).id)
                       ELSE [inflight EXCEPT ![w].pc = "insert"]
    /\ UNCHANGED <<notifications, slack_connections, now, next_id, last, scheduler>>

\* create_pr_notification: db.add, db.commit under the unique index on message_id;
\* a rejected INSERT is rolled back and re-raised, the handler answers 500
Insert(w) ==
    /\ inflight[w].pc = "insert"
    /\ IF \E n \in notifications : n.message_id = inflight[w].mid
       THEN /\ inflight' = Done(w, "500", NoId)
            /\ UNCHANGED <<notifications, next_id>>
       ELSE /\ next_id <= MaxNotifications
            /\ \E status \in Statuses, hdr \in DateHeaders :
                  notifications' = notifications \cup
                      {NewNotification(next_id, inflight[w].user, inflight[w].mid,
                                       status, parse_date(hdr))}
            /\ next_id' = next_id + 1
            /\ inflight' = [inflight EXCEPT ![w].pc = "dispatch", ![w].nid = next_id]
    /\ UNCHANGED <<slack_connections, now, last, scheduler>>

\* create_pr_notification: the immediate Slack message and the mark on success
Dispatch(w) ==
    /\ inflight[w].pc = "dispatch"
    /\ IF inflight[w].user \notin slack_connections
       THEN UNCHANGED notifications
       ELSE \E outcome \in Outcomes :
               LET calls == _send_slack_message(inflight[w].user, "single",
                                                {inflight[w].nid}, outcome)
               IN  notifications' = IF Success(calls)
                                    THEN MarkRows(notifications, {inflight[w].nid})
                                    ELSE notifications
    /\ inflight' = Done(w, "200", inflight[w].nid)
    /\ UNCHANGED <<slack_connections, now, next_id, last, scheduler>>

\* the response is sent, the worker takes the next delivery
Respond(w) ==
    /\ inflight[w].pc = "done"
    /\ inflight' = [inflight EXCEPT ![w] = Idle]
    /\ UNCHANGED <<notifications, slack_connections, now, next_id, last, scheduler>>

NextConc ==
    \/ \E w \in Workers : Receive(w)
    \/ \E w \in Workers : Lookup(w)
    \/ \E w \in Workers : Insert(w)
    \/ \E w \in Workers : Dispatch(w)
    \/ \E w \in Workers : Respond(w)

SpecConc == Init /\ [][NextConc]_vars

(* ---------------------------------------------------------------------- *)
(* Retry, reminder run and send-my-reminders step by step, side by side    *)
(* ---------------------------------------------------------------------- *)
\* the operation in slot w ends with this response
Finish(w, ret) == [inflight EXCEPT ![w].pc = "done", ![w].ret = ret]

\* POST /retry-notification/{id} up to the Slack request: the caller's
\* connection, then trigger_slack_notification's query and its three checks
RetryStart(w) ==
    /\ inflight[w].pc = "idle"
    /\ \E current_user \in Users, id \in NotificationIds :
          LET found == GetNotification(id)
              n == CHOOSE r \in found : TRUE
              job == [Idle EXCEPT !.op = "retry_single", !.nid = id]
          IN  inflight' = [inflight EXCEPT ![w] =
                  IF current_user \notin slack_connections
                  THEN [job EXCEPT !.pc = "done", !.ret = "500"]
                  ELSE IF found = {} THEN [job EXCEPT !.pc = "done", !.ret = "False"]
                  ELSE IF n.user_id \notin slack_connections
                  THEN [job EXCEPT !.pc = "done", !.ret = "False"]
                  ELSE IF n.slack_sent THEN [job EXCEPT !.pc = "done", !.ret = "True"]
                  ELSE [job EXCEPT !.pc = "retry_send", !.user = n.user_id]]
    /\ UNCHANGED <<notifications, slack_connections, now, next_id, last, scheduler>>

\* trigger_slack_notification: the Slack request
RetrySend(w) ==
    /\ inflight[w].pc = "retry_send"
    /\ \E outcome \in Outcomes :
          LET calls == _send_slack_message(inflight[w].user, "single",
                                           {inflight[w].nid}, outcome)
          IN  inflight' = IF Success(calls)
                          THEN [inflight EXCEPT ![w].pc = "retry_mark",
                                                ![w].sent = {inflight[w].nid}]
                          ELSE Finish(w, "False")
    /\ UNCHANGED <<notifications, slack_connections, now, next_id, last, scheduler>>

\* variant: the mark raises when another operation has marked the row meanwhile
RetryMarkOnce(w) ==
    /\ inflight[w].pc = "retry_mark"
    /\ IF \E n \in notifications : n.id = inflight[w].nid /\ n.slack_sent
       THEN /\ inflight' = Finish(w, "False")
            /\ UNCHANGED notifications
       ELSE /\ notifications' = MarkRows(notifications, {inflight[w].nid})
            /\ inflight' = Finish(w, "True")
    /\ UNCHANGED <<slack_connections, now, next_id, last, scheduler>>

\* trigger_slack_notification: notification.slack_sent = True, db.commit()
RetryMark(w) ==
    /\ inflight[w].pc = "retry_mark"
    /\ notifications' = MarkRows(notifications, {inflight[w].nid})
    /\ inflight' = Finish(w, "True")
    /\ UNCHANGED <<slack_connections, now, next_id, last, scheduler>>

\* the user the loop of a run takes after this one
After(u) ==
    IF \E i \in 1..(Len(UserOrder) - 1) : UserOrder[i] = u
    THEN UserOrder[(CHOOSE i \in 1..(Len(UserOrder) - 1) : UserOrder[i] = u) + 1]
    ELSE NoUser

\* the run in slot w goes on to the next user
NextUser(w) ==
    [inflight EXCEPT ![w].pc = "run_select", ![w].user = After(inflight[w].user),
                     ![w].prs = {}]

\* _daily_pr_reminders: the scheduler starts send_pr_reminders_task
RunStart(w) ==
    /\ inflight[w].pc = "idle"
    /\ inflight' = [inflight EXCEPT ![w] =
          [Idle EXCEPT !.op = "daily_pr_reminders", !.pc = "run_select",
                       !.user = UserOrder[1]]]
    /\ UNCHANGED <<notifications, slack_connections, now, next_id, last, scheduler>>

\* send_pr_reminders_task: the loop takes a user and selects the user's rows
RunSelect(w) ==
    /\ inflight[w].pc = "run_select"
    /\ LET u == inflight[w].user
           selected == _get_old_open_prs(u, DAILY_REMINDER_THRESHOLD)
       IN  IF u = NoUser THEN inflight' = Finish(w, "True")
           ELSE IF u \notin slack_connections \/ selected = {}
           THEN inflight' = NextUser(w)
           ELSE \E b \in Oldest(selected, MAX_REMINDERS_PER_USER) :
                   inflight' = [inflight EXCEPT ![w].pc = "run_send", ![w].prs = Ids(b)]
    /\ UNCHANGED <<notifications, slack_connections, now, next_id, last, scheduler>>

\* send_pr_reminders_task: _send_user_pr_reminders for the selected rows
RunSend(w) ==
    /\ inflight[w].pc = "run_send"
    /\ \E outcome \in Outcomes :
          LET rows == {n \in notifications : n.id \in inflight[w].prs}
              calls == _send_user_pr_reminders(inflight[w].user, rows, outcome)
          IN  inflight' = IF Success(calls)
                          THEN [inflight EXCEPT ![w].pc = "run_mark",
                                  ![w].sent = inflight[w].sent \cup inflight[w].prs]
                          ELSE NextUser(w)
    /\ UNCHANGED <<notifications, slack_connections, now, next_id, last, scheduler>>

\* send_pr_reminders_task: _mark_prs_slack_sent for the rows of the message
RunMark(w) ==
    /\ inflight[w].pc = "run_mark"
    /\ notifications' = MarkRows(notifications, inflight[w].prs)
    /\ inflight' = NextUser(w)
    /\ UNCHANGED <<slack_connections, now, next_id, last, scheduler>>

\* POST /send-my-reminders up to the Slack request
MyStart(w) ==
    /\ inflight[w].pc = "idle"
    /\ \E current_user \in Users, days_threshold \in ThresholdInputs,
          max_reminders \in CapInputs :
          LET candidates == {n \in notifications : /\ n.user_id = current_user
                                                   /\ n.pr_status = "opened"
                                                   /\ n.received_at <= now - days_threshold}
              job == [Idle EXCEPT !.op = "send_my_reminders", !.user = current_user]
          IN  IF current_user \notin slack_connections
              THEN inflight' = [inflight EXCEPT ![w] =
                                   [job EXCEPT !.pc = "done", !.ret = "400"]]
              ELSE IF candidates = {}
              THEN inflight' = [inflight EXCEPT ![w] =
                                   [job EXCEPT !.pc = "done", !.ret = "none"]]
              ELSE \E old_prs \in Oldest(candidates, max_reminders) :
                      inflight' = [inflight EXCEPT ![w] =
                                      [job EXCEPT !.pc = "my_send", !.prs = Ids(old_prs)]]
    /\ UNCHANGED <<notifications, slack_connections, now, next_id, last, scheduler>>

\* send_my_pr_reminders: _send_user_pr_reminders, 500 when the message fails
MySend(w) ==
    /\ inflight[w].pc = "my_send"
    /\ \E outcome \in Outcomes :
          LET rows == {n \in notifications : n.id \in inflight[w].prs}
              calls == _send_user_pr_reminders(inflight[w].user, rows, outcome)
          IN  inflight' = IF Success(calls)
                          THEN [inflight EXCEPT ![w].pc = "my_mark",
                                                ![w].sent = inflight[w].prs]
                          ELSE Finish(w, "500")
    /\ UNCHANGED <<notifications, slack_connections, now, next_id, last, scheduler>>

\* send_my_pr_reminders: _mark_prs_slack_sent, then the 200 response
MyMark(w) ==
    /\ inflight[w].pc = "my_mark"
    /\ notifications' = MarkRows(notifications, inflight[w].prs)
    /\ inflight' = Finish(w, "200")
    /\ UNCHANGED <<slack_connections, now, next_id, last, scheduler>>

\* the race starts on tables with old opened rows of both users, relayed or pending
InitRace ==
    /\ Stored({"opened"}, {LongAgo})
    /\ slack_connections \in {{"u2"}, Users}
    /\ now = 0
    /\ next_id = Cardinality(notifications) + 1
    /\ last = Result("start", NoUser, <<>>, "none", NoId, <<>>)
    /\ inflight = [w \in Workers |-> Idle]
    /\ scheduler = Started

NextRace ==
    \E w \in Workers :
        \/ RetryStart(w)
        \/ RetrySend(w)
        \/ RetryMark(w)
        \/ RunStart(w)
        \/ RunSelect(w)
        \/ RunSend(w)
        \/ RunMark(w)
        \/ MyStart(w)
        \/ MySend(w)
        \/ MyMark(w)
        \/ Respond(w)

SpecRace == InitRace /\ [][NextRace]_vars

(* ---------------------------------------------------------------------- *)
(* Age groups of a bulk reminder and of the reminder preview               *)
(* (in this part received_at and now count hours)                          *)
(* ---------------------------------------------------------------------- *)
HoursPerDay == 24

\* timedelta.days: the whole days of a difference of two times, rounded down
days(delta) == delta \div HoursPerDay

\* received_at of rows from an hour in the future to more than ten days back
AgeStamps == {1, 0, 0 - 47, 0 - 48, 0 - 71, 0 - 72, 0 - 191, 0 - 192, 0 - 250}

\* the keys of the groups dict, in the order of the dict
GroupLabels == <<"Recent (1-2 days)", "Getting Old (3-7 days)", "Urgent (8+ days)">>

\* variant: a row that is exactly two days old is no longer recent
GroupPrsStrict(pr_notifications) ==
    LET days_ago(pr) == days(now - pr.received_at)
        groups == [g \in {GroupLabels[i] : i \in 1..Len(GroupLabels)} |->
                     {pr \in pr_notifications :
                         IF days_ago(pr) < 2 THEN g = GroupLabels[1]
                         ELSE IF days_ago(pr) <= 7 THEN g = GroupLabels[2]
                         ELSE g = GroupLabels[3]}]
    IN  [g \in {k \in DOMAIN groups : groups[k] # {}} |-> Ids(groups[g])]

\* SlackNotificationService._group_prs_by_age: the ids of each non-empty group
_group_prs_by_age(pr_notifications) ==
    LET days_ago(pr) == days(now - pr.received_at)
        groups == [g \in {GroupLabels[i] : i \in 1..Len(GroupLabels)} |->
                     {pr \in pr_notifications :
                         IF days_ago(pr) <= 2 THEN g = GroupLabels[1]
                         ELSE IF days_ago(pr) <= 7 THEN g = GroupLabels[2]
                         ELSE g = GroupLabels[3]}]
    IN  [g \in {k \in DOMAIN groups : groups[k] # {}} |-> Ids(groups[g])]

\* SlackNotificationService.send_bulk_pr_reminders up to the grouping of its batch
group_bulk_reminder ==
    \E user \in Users :
       \E pr_notifications \in SUBSET RowsOfUser(user) :
          Return("group_prs_by_age", user, <<Ids(pr_notifications)>>,
                 _group_prs_by_age(pr_notifications), NoId, <<>>)

\* GET /reminder-preview: the urgency it reports for each row it lists
get_reminder_preview ==
    \E current_user \in Users, days_threshold \in ThresholdInputs :
        LET cutoff_date == now - days_threshold * HoursPerDay
            old_prs == OldOpenPrs(current_user, cutoff_date)
            days_old(pr) == days(now - pr.received_at)
            urgency == [id \in Ids(old_prs) |->
                          LET pr == CHOOSE n \in old_prs : n.id = id
                          IN  IF days_old(pr) >= 8 THEN "urgent"
                              ELSE IF days_old(pr) >= 3 THEN "old"
                              ELSE "recent"]
        IN  Return("reminder_preview", current_user, <<days_threshold>>, urgency,
                   NoId, <<>>)

InitAge ==
    /\ Stored({"opened"}, AgeStamps)
    /\ slack_connections = {"u2"}
    /\ now = 0
    /\ next_id = Cardinality(notifications) + 1
    /\ last = Result("start", NoUser, <<>>, "none", NoId, <<>>)
    /\ inflight = [w \in Workers |-> Idle]
    /\ scheduler = Started

NextAge ==
    \/ group_bulk_reminder
    \/ get_reminder_preview

SpecAge == InitAge /\ [][NextAge]_vars

(* ---------------------------------------------------------------------- *)
(* Text                                                                    *)
(* ---------------------------------------------------------------------- *)
\* Optional[str] without a value; no text of the deliveries reads like this
None == "None"

\* the truth value of an Optional[str]: None and "" are false
Truthy(text) == text # None /\ text # ""

\* the i-th character of a str
Char(s, i) == SubSeq(s, i, i)

\* the characters of a str
Chars(s) == {Char(s, i) : i \in 1..Len(s)}

UpperLetters == "ABCDEFGHIJKLMNOPQRSTUVWXYZ"
LowerLetters == "abcdefghijklmnopqrstuvwxyz"
Letters == Chars(UpperLetters) \cup Chars(LowerLetters)
Digits == Chars("0123456789")

\* \s
Whitespace == {" ", "\n", "\t", "\r"}

\* one character of str.lower()
Lower(c) ==
    IF c \in Chars(UpperLetters)
    THEN Char(LowerLetters, CHOOSE i \in 1..Len(UpperLetters) : Char(UpperLetters, i) = c)
    ELSE c

\* one character of str.upper()
Upper(c) ==
    IF c \in Chars(LowerLetters)
    THEN Char(UpperLetters, CHOOSE i \in 1..Len(LowerLetters) : Char(LowerLetters, i) = c)
    ELSE c

\* str.lower()
RECURSIVE lower(_)
lower(s) ==
    IF Len(s) <= 1 THEN Lower(s)
    ELSE lower(SubSeq(s, 1, Len(s) \div 2)) \o lower(SubSeq(s, Len(s) \div 2 + 1, Len(s)))

\* str.startswith(prefix)
startswith(s, prefix) == Len(s) >= Len(prefix) /\ SubSeq(s, 1, Len(prefix)) = prefix

\* sub in s
In(sub, s) == \E i \in 1..(Len(s) - Len(sub) + 1) : SubSeq(s, i, i + Len(sub) - 1) = sub

\* str.strip(): from the first to the last character that is no whitespace
strip(s) ==
    LET inked == {i \in 1..Len(s) : Char(s, i) \notin Whitespace}
    IN  IF inked = {} THEN ""
        ELSE SubSeq(s, CHOOSE i \in inked : \A j \in inked : i <= j,
                       CHOOSE i \in inked : \A j \in inked : i >= j)

(* ---------------------------------------------------------------------- *)
(* Regular expressions (module re): backtracking, leftmost match           *)
(* ---------------------------------------------------------------------- *)
\* one item of a pattern: a literal text, or a character class (or its
\* complement) repeated between min and max times, greedy or lazy; inside
\* the group or not; max = -1 stands for no upper limit
Item(kind, text, chars, min, max, lazy) ==
    [kind |-> kind, text |-> text, chars |-> chars, min |-> min, max |-> max,
     lazy |-> lazy, group |-> FALSE]

Text(s) == <<Item("text", s, {}, 1, 1, FALSE)>>            \* the text s
Chr(c) == Item("in", "", {c}, 1, 1, FALSE)                 \* c
Opt(c) == Item("in", "", {c}, 0, 1, FALSE)                 \* c?
Star(chars) == Item("in", "", chars, 0, -1, FALSE)         \* [chars]*
Plus(chars) == Item("in", "", chars, 1, -1, FALSE)         \* [chars]+
AtLeast(chars, min) == Item("in", "", chars, min, -1, FALSE) \* [chars]{min,}
StarNot(chars) == Item("not", "", chars, 0, -1, FALSE)     \* [^chars]*
PlusNot(chars) == Item("not", "", chars, 1, -1, FALSE)     \* [^chars]+
AnyLazy == Item("not", "", {}, 0, -1, TRUE)                \* .*? under re.DOTALL
LineLazy == Item("not", "", {"\n"}, 0, -1, TRUE)           \* .*? without re.DOTALL
Bol == Item("^", "", {}, 0, 0, FALSE)                      \* ^
Eol == Item("$", "", {}, 0, 0, FALSE)                      \* $

\* ( ... ): the items are inside the group
Group(items) == [i \in 1..Len(items) |-> [items[i] EXCEPT !.group = TRUE]]

\* a character is in the class of an item
Matches(c, item, ignorecase) ==
    LET found == IF ignorecase
                 THEN c \in item.chars \/ Lower(c) \in item.chars \/ Upper(c) \in item.chars
                 ELSE c \in item.chars
    IN  IF item.kind = "in" THEN found ELSE ~found

\* the text of an item stands at pos
TextAt(item, s, pos, ignorecase) ==
    /\ pos + Len(item.text) - 1 <= Len(s)
    /\ \A i \in 1..Len(item.text) :
          LET c == Char(s, pos + i - 1)
          IN  IF ignorecase THEN Lower(c) = Lower(Char(item.text, i))
              ELSE c = Char(item.text, i)

\* the least and the greatest number of a set, otherwise for the empty set
Least(numbers, otherwise) ==
    IF numbers = {} THEN otherwise ELSE CHOOSE n \in numbers : \A m \in numbers : n <= m

Greatest(numbers, otherwise) ==
    IF numbers = {} THEN otherwise ELSE CHOOSE n \in numbers : \A m \in numbers : n >= m

\* how many characters an item may take from pos on at most
Limit(item, s, pos) ==
    IF item.max = -1 \/ Len(s) - pos + 1 < item.max THEN Len(s) - pos + 1 ELSE item.max

\* how many characters from pos on are in the class of the item, up to its max
Run(item, s, pos, ignorecase) ==
    Least({n \in 0..(Limit(item, s, pos) - 1) : ~Matches(Char(s, pos + n), item, ignorecase)},
          Limit(item, s, pos))

NoMatch == [start |-> 0, end |-> 0, first |-> 0, last |-> 0]

\* the match of items[k..] given the match of the rest after items[k] has
\* taken its characters: its end, and where the group starts and ends
Joined(items, k, pos, taken, rest) ==
    IF rest = NoMatch THEN NoMatch
    ELSE [start |-> 0, end |-> rest.end,
          first |-> IF items[k].group /\ (k = 1 \/ ~items[k - 1].group)
                    THEN pos ELSE rest.first,
          last |-> IF items[k].group /\ (k = Len(items) \/ ~items[k + 1].group)
                   THEN pos + taken ELSE rest.last]

\* the match of items[k..] at pos that the backtracking search finds first.
\* A repeated class is taken as often as possible (as rarely, when lazy) such
\* that the rest matches; Taken is -1 when items[k] does not fit at pos.
RECURSIVE MatchAt(_, _, _, _, _), Taken(_, _, _, _, _), Rest(_, _, _, _, _, _)
MatchAt(items, k, s, pos, ignorecase) ==
    IF k > Len(items) THEN [start |-> 0, end |-> pos, first |-> 0, last |-> 0]
    ELSE Rest(items, k, s, pos, ignorecase, Taken(items, k, s, pos, ignorecase))

Rest(items, k, s, pos, ignorecase, taken) ==
    IF taken = -1 THEN NoMatch
    ELSE Joined(items, k, pos, taken, MatchAt(items, k + 1, s, pos + taken, ignorecase))

Taken(items, k, s, pos, ignorecase) ==
    IF items[k].kind = "text"
    THEN IF TextAt(items[k], s, pos, ignorecase) THEN Len(items[k].text) ELSE -1
    ELSE IF items[k].kind = "^" THEN IF pos = 1 THEN 0 ELSE -1
    ELSE IF items[k].kind = "$"
    THEN IF pos = Len(s) + 1 \/ (pos = Len(s) /\ Char(s, pos) = "\n") THEN 0 ELSE -1
    ELSE IF items[k].lazy
    THEN Least({n \in items[k].min..Run(items[k], s, pos, ignorecase) :
                   MatchAt(items, k + 1, s, pos + n, ignorecase) # NoMatch}, -1)
    ELSE Greatest({n \in items[k].min..Run(items[k], s, pos, ignorecase) :
                      MatchAt(items, k + 1, s, pos + n, ignorecase) # NoMatch}, -1)

\* the match of an alternative that starts at pos; first..last-1 is the
\* group, or the whole match for a pattern without a group
Whole(pos, m) ==
    [start |-> pos, end |-> m.end,
     first |-> IF m.first = 0 THEN pos ELSE m.first,
     last |-> IF m.first = 0 THEN m.end ELSE m.last]

\* the match of the first alternative that has one, given the match of every
\* alternative at pos
FirstOf(pos, matches) ==
    IF \A a \in DOMAIN matches : matches[a] = NoMatch THEN NoMatch
    ELSE Whole(pos, matches[Least({a \in DOMAIN matches : matches[a] # NoMatch}, 0)])

\* the first alternative of the pattern that matches at pos (re.match for
\* pos = 1)
MatchAny(pattern, s, pos, ignorecase) ==
    FirstOf(pos, [a \in 1..Len(pattern) |-> MatchAt(pattern[a], 1, s, pos, ignorecase)])

\* the leftmost of the matches
Leftmost(found) ==
    IF found = {} THEN NoMatch
    ELSE CHOOSE m \in found : \A n \in found : m.start <= n.start

\* re.search from pos on: the leftmost match
Search(pattern, s, pos, ignorecase) ==
    Leftmost({MatchAny(pattern, s, p, ignorecase) : p \in pos..(Len(s) + 1)} \ {NoMatch})

\* the group of a match (the whole match for a pattern without a group)
group(s, m) == SubSeq(s, m.first, m.last - 1)

\* where the search goes on after a match
Onward(m) == IF m.end > m.start THEN m.end ELSE m.end + 1

\* re.findall: the groups of the matches from left to right, not overlapping
RECURSIVE FindAllFrom(_, _, _, _), Found(_, _, _, _)
FindAllFrom(pattern, s, pos, ignorecase) ==
    Found(pattern, s, ignorecase, Search(pattern, s, pos, ignorecase))

Found(pattern, s, ignorecase, m) ==
    IF m = NoMatch THEN <<>>
    ELSE <<group(s, m)>> \o FindAllFrom(pattern, s, Onward(m), ignorecase)

findall(pattern, s, ignorecase) == FindAllFrom(pattern, s, 1, ignorecase)

\* re.sub: every match from left to right replaced by repl
RECURSIVE SubFrom(_, _, _, _, _), Replaced(_, _, _, _, _, _)
SubFrom(pattern, repl, s, pos, ignorecase) ==
    Replaced(pattern, repl, s, pos, ignorecase, Search(pattern, s, pos, ignorecase))

Replaced(pattern, repl, s, pos, ignorecase, m) ==
    IF m = NoMatch THEN SubSeq(s, pos, Len(s))
    ELSE SubSeq(s, pos, m.start - 1) \o repl \o
         SubSeq(s, m.end, Onward(m) - 1) \o
         SubFrom(pattern, repl, s, Onward(m), ignorecase)

sub(pattern, repl, s, ignorecase) == SubFrom(pattern, repl, s, 1, ignorecase)

(* ---------------------------------------------------------------------- *)
(* PRParserService                                                         *)
(* ---------------------------------------------------------------------- *)
\* [a-zA-Z0-9._%+-] and [a-zA-Z0-9.-]
LocalChars == Letters \cup Digits \cup {".", "_", "%", "+", "-"}
DomainChars == Letters \cup Digits \cup {".", "-"}

\* [a-zA-Z0-9._%+-]+@[a-zA-Z0-9.-]+\.[a-zA-Z]{2,}
Address ==
    <<Plus(LocalChars), Chr("@"), Plus(DomainChars), Chr("."),
      AtLeast(Letters, 2)>>

\* [^>]+@[^>]+
Bracketed == <<PlusNot({">"}), Chr("@"), PlusNot({">"})>>

\* [^\s<>\n]+@[^\s<>\n]+
Unspaced ==
    <<PlusNot(Whitespace \cup {"<", ">"}), Chr("@"), PlusNot(Whitespace \cup {"<", ">"})>>

\* _is_valid_email: re.match of ^address$
_is_valid_email(email) ==
    MatchAny(<< <<Bol>> \o Address \o <<Eol>> >>, email, 1, FALSE) # NoMatch

\* forwarded_indicators of _is_forwarded_email
forwarded_indicators ==
    <<"---------- Forwarded message ---------",
      "Begin forwarded message:",
      "Forwarded message",
      "From:",
      "Date:",
      "Subject:",
      "To:">>

\* variant: the prefix of the subject is compared without regard to case
IsForwardedAnyCase(webhook_data) ==
    IF startswith(lower(webhook_data.Subject), lower("Fwd:")) THEN TRUE
    ELSE IF Truthy(webhook_data.TextBody)
    THEN LET text_lower == lower(webhook_data.TextBody)
             indicator_count ==
                 Cardinality({i \in 1..Len(forwarded_indicators) :
                                 In(lower(forwarded_indicators[i]), text_lower)})
         IN  indicator_count >= 3
    ELSE FALSE

\* PRParserService._is_forwarded_email
_is_forwarded_email(webhook_data) ==
    IF startswith(webhook_data.Subject, "Fwd:") THEN TRUE
    ELSE IF Truthy(webhook_data.TextBody)
    THEN LET text_lower == lower(webhook_data.TextBody)
             indicator_count ==
                 Cardinality({i \in 1..Len(forwarded_indicators) :
                                 In(lower(forwarded_indicators[i]), text_lower)})
         IN  indicator_count >= 3
    ELSE FALSE

\* the patterns of _extract_original_recipient_from_content, in its order
recipient_patterns ==
    << << Text("To:") \o <<Star(Whitespace), Chr("<")>> \o Group(Bracketed) \o <<Chr(">")>> >>,
       << Text("To:") \o <<Star(Whitespace)>> \o Group(Unspaced) >>,
       << Text("To:") \o <<Star(Whitespace), StarNot({"<", "\n"}), Chr("<")>> \o
          Group(Bracketed) \o <<Chr(">")>> >>,
       << Text("---------- Forwarded message ---------") \o <<AnyLazy>> \o
          Text("To:") \o <<Star(Whitespace), Chr("<")>> \o Group(Bracketed) \o <<Chr(">")>> >>,
       << Text("To:") \o <<Star(Whitespace)>> \o Group(Address) >>,
       << Text("To:") \o <<Star(Whitespace), Opt("<")>> \o Group(Address) \o <<Opt(">")>>,
          Text("TO:") \o <<Star(Whitespace), Opt("<")>> \o Group(Address) \o <<Opt(">")>> >> >>

\* the first match that is a valid address once stripped, None without one
RECURSIVE FirstValid(_)
FirstValid(matches) ==
    IF matches = <<>> THEN None
    ELSE IF _is_valid_email(strip(Head(matches))) THEN strip(Head(matches))
    ELSE FirstValid(Tail(matches))

\* the loop over the patterns from the i-th on
RECURSIVE FromPatterns(_, _)
FromPatterns(content, i) ==
    IF i > Len(recipient_patterns) THEN None
    ELSE LET email == FirstValid(findall(recipient_patterns[i], content, TRUE))
         IN  IF email # None THEN email ELSE FromPatterns(content, i + 1)

\* BeautifulSoup(html_content, 'html.parser').get_text(): the text without tags
get_text(html_content) ==
    sub(<< <<Chr("<"), StarNot({">"}), Chr(">")>> >>, "", html_content, FALSE)

\* the patterns of _extract_recipient_from_html, in its order
html_patterns == <<recipient_patterns[1], recipient_patterns[5]>>

\* the loop of _extract_recipient_from_html: of each pattern only the first match
RECURSIVE FromHtmlPatterns(_, _)
FromHtmlPatterns(text, i) ==
    IF i > Len(html_patterns) THEN None
    ELSE LET matches == findall(html_patterns[i], text, TRUE)
         IN  IF matches # <<>> /\ _is_valid_email(strip(matches[1]))
             THEN strip(matches[1])
             ELSE FromHtmlPatterns(text, i + 1)

\* PRParserService._extract_recipient_from_html
_extract_recipient_from_html(html_content) == FromHtmlPatterns(get_text(html_content), 1)

\* variant: the HTML body is never looked at
FromContentWithoutHtml(webhook_data) ==
    FromPatterns(IF Truthy(webhook_data.TextBody) THEN webhook_data.TextBody ELSE "", 1)

\* PRParserService._extract_original_recipient_from_content
_extract_original_recipient_from_content(webhook_data) ==
    LET content == IF Truthy(webhook_data.TextBody) THEN webhook_data.TextBody ELSE ""
        email == FromPatterns(content, 1)
    IN  IF email # None THEN email
        ELSE IF Truthy(webhook_data.HtmlBody)
        THEN LET html_recipient == _extract_recipient_from_html(webhook_data.HtmlBody)
             IN  IF Truthy(html_recipient) THEN html_recipient ELSE None
        ELSE None

\* PRParserService.extract_recipient_email
extract_recipient_email(webhook_data) ==
    IF _is_forwarded_email(webhook_data)
    THEN LET original_recipient == _extract_original_recipient_from_content(webhook_data)
         IN  IF Truthy(original_recipient) THEN original_recipient
             ELSE webhook_data.OriginalRecipient
    ELSE webhook_data.OriginalRecipient

\* any(word in content for word in words)
AnyIn(words, content) == \E word \in words : In(word, content)

\* variant: the opened keywords are looked for first
StatusOpenedFirst(subject, text_body) ==
    LET content == lower(subject \o " " \o (IF Truthy(text_body) THEN text_body ELSE ""))
    IN  IF AnyIn({"opened", "open", "new pull request"}, content) THEN "opened"
        ELSE IF AnyIn({"merged", "merge"}, content) THEN "merged"
        ELSE IF AnyIn({"closed", "close"}, content) THEN "closed"
        ELSE IF AnyIn({"updated", "update"}, content) THEN "updated"
        ELSE "opened"

\* PRParserService._extract_pr_status
_extract_pr_status(subject, text_body) ==
    LET content == lower(subject \o " " \o (IF Truthy(text_body) THEN text_body ELSE ""))
    IN  IF AnyIn({"merged", "merge"}, content) THEN "merged"
        ELSE IF AnyIn({"closed", "close"}, content) THEN "closed"
        ELSE IF AnyIn({"opened", "open", "new pull request"}, content) THEN "opened"
        ELSE IF AnyIn({"updated", "update"}, content) THEN "updated"
        ELSE "opened"

\* ^Fwd:\s*
FwdPrefix == << <<Bol>> \o Text("Fwd:") \o <<Star(Whitespace)>> >>

\* ^\[[^\]]+\]\s*
RepoPrefix == << <<Bol, Chr("["), PlusNot({"]"}), Chr("]"), Star(Whitespace)>> >>

\* \s*\((?:PR\s*)?#\d+\)$ : with the optional part, then without it
NumberSuffix ==
    << <<Star(Whitespace), Chr("("), Chr("P"), Chr("R"), Star(Whitespace), Chr("#"),
         Plus(Digits), Chr(")"), Eol>>,
       <<Star(Whitespace), Chr("("), Chr("#"), Plus(Digits), Chr(")"), Eol>> >>

\* PRParserService._extract_pr_title
_extract_pr_title(subject) ==
    LET clean_subject ==
            sub(NumberSuffix, "",
                sub(RepoPrefix, "", sub(FwdPrefix, "", subject, TRUE), FALSE),
                FALSE)
        title == strip(sub(<< <<Plus(Whitespace)>> >>, " ", clean_subject, FALSE))
    IN  IF title # "" THEN title ELSE "GitHub Notification"

\* PRParserService._extract_original_sender
_extract_original_sender(webhook_data) ==
    LET github_pattern ==
            << Text("From:") \o <<Star(Whitespace), StarNot({"<"})>> \o
               Text("<notifications@github.com>") >>
        \* From:\s*([^\n<]+(?:<[^>]+>)?) : with the optional part, then without it
        from_pattern ==
            << Text("From:") \o <<Star(Whitespace)>> \o
               Group(<<PlusNot({"\n", "<"}), Chr("<"), PlusNot({">"}), Chr(">")>>),
               Text("From:") \o <<Star(Whitespace)>> \o Group(<<PlusNot({"\n", "<"})>>) >>
        match == Search(from_pattern, webhook_data.TextBody, 1, FALSE)
        from_line == strip(group(webhook_data.TextBody, match))
        email_match ==
            Search(<< <<Chr("<")>> \o Group(<<PlusNot({">"})>>) \o <<Chr(">")>> >>,
                   from_line, 1, FALSE)
    IN  IF ~Truthy(webhook_data.TextBody) THEN None
        ELSE IF Search(github_pattern, webhook_data.TextBody, 1, FALSE) # NoMatch
        THEN "notifications@github.com"
        ELSE IF match # NoMatch
        THEN IF email_match # NoMatch THEN group(from_line, email_match) ELSE from_line
        ELSE None

\* [a-zA-Z0-9_.-]
RepoChars == Letters \cup Digits \cup {"_", ".", "-"}

\* PRParserService._extract_repo_name
_extract_repo_name(subject) ==
    LET clean_subject == sub(FwdPrefix, "", subject, TRUE)
        repo_pattern ==
            << <<Chr("[")>> \o
               Group(<<PlusNot({"/", "]"}), Chr("/"), PlusNot({"/", "]"})>>) \o <<Chr("]")>> >>
        alt_pattern ==
            << <<Opt("[")>> \o Group(<<Plus(RepoChars), Chr("/"), Plus(RepoChars)>>) \o
               <<Opt("]")>> >>
        match == Search(repo_pattern, clean_subject, 1, FALSE)
        alt_match == Search(alt_pattern, clean_subject, 1, FALSE)
    IN  IF match # NoMatch THEN group(clean_subject, match)
        ELSE IF alt_match # NoMatch /\ In("/", group(clean_subject, alt_match))
        THEN group(clean_subject, alt_match)
        ELSE None

\* [?#].*$
Tracking == << <<Item("in", "", {"?", "#"}, 1, 1, FALSE), StarNot({"\n"}), Eol>> >>

\* https://github\.com/[^/\s]+/[^/\s]+/pull/\d+
PullUrl ==
    Text("https://github.com/") \o <<PlusNot(Whitespace \cup {"/"}), Chr("/"),
                                          PlusNot(Whitespace \cup {"/"})>> \o
    Text("/pull/") \o <<Plus(Digits)>>

\* url_patterns of _extract_pr_link
url_patterns ==
    << << PullUrl >>,
       << Text("View it on GitHub") \o <<LineLazy>> \o Group(PullUrl),
          Text("Pull Request") \o <<LineLazy>> \o Group(PullUrl) >> >>

\* soup.find_all('a', href=True): the href of every tag written <a href='...'>
Hrefs(html_body) ==
    findall(<< Text("<a href='") \o Group(<<StarNot({"'"})>>) \o <<Chr("'")>> >>,
            html_body, TRUE)

\* the first href that is a link to a pull request, without its tracking part
RECURSIVE FirstPullLink(_)
FirstPullLink(links) ==
    IF links = <<>> THEN None
    ELSE IF In("github.com", Head(links)) /\ In("/pull/", Head(links))
    THEN sub(Tracking, "", Head(links), FALSE)
    ELSE FirstPullLink(Tail(links))

\* the loop over url_patterns from the i-th on: the first match of the first
\* pattern that has one
RECURSIVE FromUrlPatterns(_, _)
FromUrlPatterns(text_body, i) ==
    IF i > Len(url_patterns) THEN None
    ELSE LET matches == findall(url_patterns[i], text_body, TRUE)
         IN  IF matches # <<>> THEN sub(Tracking, "", matches[1], FALSE)
             ELSE FromUrlPatterns(text_body, i + 1)

\* PRParserService._extract_pr_link
_extract_pr_link(text_body, html_body) ==
    LET from_html == IF Truthy(html_body) THEN FirstPullLink(Hrefs(html_body)) ELSE None
    IN  IF from_html # None THEN from_html
        ELSE IF Truthy(text_body) THEN FromUrlPatterns(text_body, 1)
        ELSE None

\* PRParserService._extract_pr_number
_extract_pr_number(subject, pr_link) ==
    LET \* (?:PR\s*)?#(\d+) : with the optional part, then without it
        number_pattern ==
            << <<Chr("P"), Chr("R"), Star(Whitespace), Chr("#")>> \o Group(<<Plus(Digits)>>),
               <<Chr("#")>> \o Group(<<Plus(Digits)>>) >>
        link_pattern == << Text("/pull/") \o Group(<<Plus(Digits)>>) >>
        match == Search(number_pattern, subject, 1, TRUE)
        link_match == Search(link_pattern, pr_link, 1, FALSE)
    IN  IF match # NoMatch THEN group(subject, match)
        ELSE IF Truthy(pr_link) /\ link_match # NoMatch THEN group(pr_link, link_match)
        ELSE None

\* PRExtractionResult
PRExtractionResult(repo_name, pr_title, pr_link, pr_number, pr_status, is_forwarded, original_sender) ==
    [repo_name |-> repo_name, pr_title |-> pr_title, pr_link |-> pr_link,
     pr_number |-> pr_number, pr_status |-> pr_status, is_forwarded |-> is_forwarded,
     original_sender |-> original_sender]

\* the result of the except branch of extract_pr_data
Minimal(webhook_data) ==
    PRExtractionResult(None, webhook_data.Subject, None, None, None,
                       _is_forwarded_email(webhook_data), None)

\* variant: the except branch gives the result of the try block all the same
ExtractIgnoringRaise(webhook_data, raises) ==
    LET is_forwarded == _is_forwarded_email(webhook_data)
        pr_link == _extract_pr_link(webhook_data.TextBody, webhook_data.HtmlBody)
    IN  PRExtractionResult(_extract_repo_name(webhook_data.Subject),
                           _extract_pr_title(webhook_data.Subject),
                           pr_link,
                           _extract_pr_number(webhook_data.Subject, pr_link),
                           _extract_pr_status(webhook_data.Subject, webhook_data.TextBody),
                           is_forwarded,
                           IF is_forwarded THEN _extract_original_sender(webhook_data)
                           ELSE None)

\* PRParserService.extract_pr_data; raises: a step of the try block (the HTML
\* parser, the construction or the dump of the result) raises an exception
extract_pr_data(webhook_data, raises) ==
    LET is_forwarded == _is_forwarded_email(webhook_data)
        original_sender == IF is_forwarded THEN _extract_original_sender(webhook_data)
                           ELSE None
        repo_name == _extract_repo_name(webhook_data.Subject)
        pr_title == _extract_pr_title(webhook_data.Subject)
        pr_link == _extract_pr_link(webhook_data.TextBody, webhook_data.HtmlBody)
        pr_number == _extract_pr_number(webhook_data.Subject, pr_link)
        pr_status == _extract_pr_status(webhook_data.Subject, webhook_data.TextBody)
    IN  IF raises THEN Minimal(webhook_data)
        ELSE PRExtractionResult(repo_name, pr_title, pr_link, pr_number, pr_status,
                                is_forwarded, original_sender)

(* ---------------------------------------------------------------------- *)
(* The parser over deliveries of several subjects and bodies               *)
(* ---------------------------------------------------------------------- *)
\* Subject of the deliveries
Subjects ==
    {"Fwd: [o/r] Fix (#1)",
     "FWD: merged",
     "[o/r] (PR #2)",
     "",
     "Reopened x",
     "close update"}

\* TextBody of the deliveries
TextBodies ==
    {None,
     "From: a <notifications@github.com>\nDate: 1\nTo: <u1@x.io>",
     "From: b\nTo: bad@x",
     "---------- Forwarded message ---------\nTo: u2@x.io\nmerged",
     "Subject: x\nDate: 1\nhttps://github.com/o/r/pull/7",
     "To: bad@x <u1@x.io>\nFrom: c\nDate: 2"}

\* HtmlBody of the deliveries
HtmlBodies ==
    {None,
     "<p>To: h@x.io</p><a href='https://github.com/o/r/pull/9?x'>PR</a>",
     "<b>hi</b>"}

\* OriginalRecipient of the deliveries
OriginalRecipients == {"in@p.io", "u2@p.io"}

\* a delivery has arrived
InitParse ==
    /\ \E Subject \in Subjects, TextBody \in TextBodies, HtmlBody \in HtmlBodies,
          OriginalRecipient \in OriginalRecipients :
          last = Result("received", NoUser,
                        [Subject |-> Subject, TextBody |-> TextBody, HtmlBody |-> HtmlBody,
                         OriginalRecipient |-> OriginalRecipient],
                        None, NoId, <<>>)
    /\ notifications = {}
    /\ slack_connections = {"u2"}
    /\ now = 0
    /\ next_id = 1
    /\ inflight = [w \in Workers |-> Idle]
    /\ scheduler = Started

\* a function of the parser is applied to the delivery that has arrived
Applied(op, args, ret) ==
    /\ last.op = "received"
    /\ Return(op, NoUser, args, ret, NoId, <<>>)

is_forwarded_email ==
    Applied("is_forwarded_email", last.args,
            IF _is_forwarded_email(last.args) THEN "True" ELSE "False")

recipient_email ==
    Applied("extract_recipient_email", last.args, extract_recipient_email(last.args))

pr_status ==
    Applied("extract_pr_status", last.args,
            _extract_pr_status(last.args.Subject, last.args.TextBody))

pr_title ==
    Applied("extract_pr_title", last.args, _extract_pr_title(last.args.Subject))

\* raises: whether a step of the try block raises this time
pr_data ==
    \E raises \in BOOLEAN :
        Applied("extract_pr_data", [webhook_data |-> last.args, raises |-> raises],
                extract_pr_data(last.args, raises))

NextParse ==
    \/ is_forwarded_email
    \/ recipient_email
    \/ pr_status
    \/ pr_title
    \/ pr_data

SpecParse == InitParse /\ [][NextParse]_vars

(* ---------------------------------------------------------------------- *)
(* Properties                                                              *)
(* ---------------------------------------------------------------------- *)
\* ids of the rows carried by the requests that ended ok
Covered(calls) ==
    UNION {calls[i].prs : i \in {j \in 1..Len(calls) : calls[j].outcome = "ok"}}

\* ids of the rows carried by any request
Sent(calls) == UNION {calls[i].prs : i \in 1..Len(calls)}

\* rows that are relayed after a step and were not relayed (or not stored) before it
NewlyRelayed ==
    {m \in notifications' : /\ m.slack_sent
                            /\ \A n \in notifications : n.id = m.id => ~n.slack_sent}

\* the step is a webhook delivery that reached create_pr_notification
Delivered == last'.op = "webhook" /\ last'.user # NoUser

\* C1: after any sequence of deliveries the store holds at most one row per
\* provider message id, and a delivery (whose recipient resolves to a user) of
\* an id that is stored answers 200 with the id of the stored row, which stays.
C1_OneRecordPerMessageId ==
    [][ /\ \A a, b \in notifications' : a.message_id = b.message_id => a = b
        /\ \A r \in notifications :
              (Delivered /\ last'.args[1] = r.message_id)
              => (last'.ret = "200" /\ last'.nid = r.id /\ r \in notifications') ]_vars

\* C1 witness: a repeated delivery has answered with the id of an older row
C1_Redelivered ==
    /\ last.op = "webhook"
    /\ last.ret = "200"
    /\ last.nid # NoId
    /\ last.nid < next_id - 1
    /\ \E n \in notifications : n.id = last.nid /\ n.message_id = last.args[1]

\* C2: create_pr_notification called with a message id that has a stored row
\* returns that row and changes nothing: the table is the same (no field of
\* any row, slack_sent included, no new row, no key used) and no request is made.
C2_ExistingReturnedUnchanged ==
    [][ \A r \in notifications :
           (Delivered /\ last'.args[1] = r.message_id)
           => /\ notifications' = notifications
              /\ next_id' = next_id
              /\ last'.calls = <<>>
              /\ last'.nid = r.id ]_vars

\* C2 witness: a delivery has returned a stored row that is still pending although
\* its owner is connected (a first delivery would have sent a message)
C2_RedeliveredPending ==
    /\ last.op = "webhook"
    /\ last.ret = "200"
    /\ last.calls = <<>>
    /\ \E n \in notifications : /\ n.id = last.nid
                                /\ ~n.slack_sent
                                /\ n.user_id \in slack_connections

\* C3: two deliveries of one message id whose lookup and insert steps interleave
\* both end without an error and both return the id of the one stored row.
C3_ConcurrentDuplicateNoError ==
    \A w \in Workers :
        (inflight[w].pc = "done" /\ inflight[w].user # NoUser)
        => /\ inflight[w].ret = "200"
           /\ \E n \in notifications : /\ n.id = inflight[w].nid
                                       /\ n.message_id = inflight[w].mid

\* C4: slack_sent is monotonic: no step takes a stored row from true back to
\* false, and a row is created with false (a new row is relayed after the
\* delivery that created it only by that delivery's own successful message).
C4_RelayedFlagMonotonic ==
    [][ /\ \A n \in notifications, m \in notifications' :
              (m.id = n.id /\ n.slack_sent) => m.slack_sent
        /\ \A m \in notifications' :
              (m.id \notin Ids(notifications) /\ m.slack_sent)
              => /\ last'.op = "webhook"
                 /\ last'.nid = m.id
                 /\ Covered(last'.calls) = {m.id} ]_vars

\* C4 witness: a message about a relayed row has failed and the row is still relayed
C4_RelayedKeptAfterFailedResend ==
    /\ last.op = "retry_slack"
    /\ last.calls # <<>>
    /\ ~Success(last.calls)
    /\ \E n \in notifications : n.id = last.args[1] /\ n.slack_sent

\* C5 as stated: a row becomes relayed only in a step whose successful request
\* carries that row.
C5_RelayedOnlyBySuccessfulSend ==
    [][ \A m \in NewlyRelayed : m.id \in Covered(last'.calls) ]_vars

\* C5 amended: a row becomes relayed only in a step whose successful request
\* carries that row, or by its owner's explicit mark-slack-sent request, which
\* makes no request to Slack.
C5_RelayedBySendOrManualMark ==
    [][ \A m \in NewlyRelayed :
           \/ m.id \in Covered(last'.calls)
           \/ /\ last'.op = "mark_slack_sent"
              /\ last'.ret = "200"
              /\ last'.user = m.user_id
              /\ last'.args = <<m.id>>
              /\ last'.calls = <<>> ]_vars

\* C5 witness: a row is relayed after a manual mark, no request was made
C5_MarkedWithoutSend ==
    /\ last.op = "mark_slack_sent"
    /\ last.ret = "200"
    /\ last.calls = <<>>
    /\ \E n \in notifications : n.id = last.args[1] /\ n.slack_sent

\* operations that dispatch one stored row by its id
SingleDispatchOps == {"retry_single", "retry_slack"}

\* operations that dispatch the rows they select as one batch per user
ReminderRuns == {"daily_pr_reminders", "urgent_pr_reminders", "trigger_all_reminders"}
BatchOps == ReminderRuns \cup {"custom_reminder", "send_my_reminders"}

\* the message a single dispatch has made is one request for this row, and the
\* row is relayed afterwards exactly if the request ended ok
OneCallFor(id) ==
    /\ Len(last'.calls) = 1
    /\ last'.calls[1].prs = {id}
    /\ \E m \in notifications' : /\ m.id = id
                                 /\ m.slack_sent = (last'.calls[1].outcome = "ok")

\* C6: a single dispatch of one pending row of a connected owner (by the
\* trigger, by the manual retry, or at ingestion) makes exactly one request;
\* the row is relayed afterwards if the request ended ok, and stays pending
\* without a second request if it ended in an error reply or a timeout.
C6_SingleDispatchOneCall ==
    [][ /\ \A r \in notifications :
              ( /\ last'.op \in SingleDispatchOps
                /\ last'.args = <<r.id>>
                /\ last'.ret # "500"
                /\ r.user_id \in slack_connections
                /\ ~r.slack_sent )
              => /\ OneCallFor(r.id)
                 /\ last'.ret = IF last'.calls[1].outcome = "ok" THEN "True" ELSE "False"
        /\ \A m \in notifications' :
              ( /\ last'.op = "webhook"
                /\ m.id \notin Ids(notifications)
                /\ m.user_id \in slack_connections )
              => OneCallFor(m.id)
        /\ last'.op \in SingleDispatchOps \cup {"webhook"} => Len(last'.calls) <= 1 ]_vars

\* C6 witness: a dispatch by the trigger has timed out after one request, the row is pending
C6_TimedOutStaysPending ==
    /\ last.op = "retry_single"
    /\ Len(last.calls) = 1
    /\ last.calls[1].outcome = "timeout"
    /\ \E n \in notifications : n.id = last.args[1] /\ ~n.slack_sent

\* C7: dispatching a row that is already relayed does not send it again: the
\* dispatch entry points behind HTTP routes (the trigger behind
\* /retry-notification and /send-my-reminders) make no request that carries a
\* row which is relayed.  (retry_slack_notification, which no route calls,
\* sends again as well and is left out here.)
C7_RelayedNeverSentAgain ==
    [][ \A r \in notifications :
           (r.slack_sent /\ last'.op \in {"retry_single", "send_my_reminders"})
           => r.id \notin Sent(last'.calls) ]_vars

\* C8: a batch dispatch makes one request per user's batch: the rows of a
\* request that ended ok are all relayed afterwards, the rows of a request that
\* failed are all as they were, nothing else becomes relayed, and a reminder
\* run puts all the rows it selected for a user (up to the cap) in one request.
C8_BatchAllOrNothing ==
    [][ last'.op \in BatchOps =>
          /\ \A i \in 1..Len(last'.calls) :
                LET c == last'.calls[i]
                IN  /\ c.prs # {}
                    /\ c.outcome = "ok" =>
                          \A id \in c.prs : \E m \in notifications' : m.id = id /\ m.slack_sent
                    /\ c.outcome # "ok" =>
                          \A n \in notifications : n.id \in c.prs => n \in notifications'
                    /\ \A j \in 1..Len(last'.calls) : j # i => last'.calls[j].user # c.user
          /\ \A m \in NewlyRelayed : m.id \in Covered(last'.calls)
          /\ Ids(notifications') = Ids(notifications)
          /\ last'.op \in ReminderRuns =>
                \A u \in slack_connections :
                   LET selected == _get_old_open_prs(u, last'.args[1])
                   IN  selected # {} =>
                          \E i \in 1..Len(last'.calls) :
                             /\ last'.calls[i].user = u
                             /\ last'.calls[i].prs \subseteq Ids(selected)
                             /\ Cardinality(last'.calls[i].prs)
                                   = Min(last'.args[2], Cardinality(selected))
          /\ last'.op = "custom_reminder" =>
                LET selected == _get_old_open_prs(last'.user, last'.args[1])
                IN  (selected # {} /\ last'.user \in slack_connections) =>
                       /\ Len(last'.calls) = 1
                       /\ last'.calls[1].prs = Ids(selected) ]_vars

\* C8 witness: a scheduled run's request for a batch of two rows has failed and both are pending
C8_FailedBatchUnchanged ==
    /\ last.op = "daily_pr_reminders"
    /\ \E i \in 1..Len(last.calls) :
          /\ last.calls[i].kind = "bulk"
          /\ last.calls[i].outcome = "error"
          /\ Cardinality(last.calls[i].prs) = 2
          /\ \A id \in last.calls[i].prs :
                \E n \in notifications : n.id = id /\ ~n.slack_sent

\* the delivery that ran last created a row and its immediate message failed
IngestDispatchFailed ==
    last.op = "webhook" /\ last.calls # <<>> /\ ~Success(last.calls)

\* C9 as stated: a row whose immediate dispatch at ingestion failed is pending
\* and eligible for the scheduler: it passes the selection of a reminder run as
\* soon as the run's cutoff date reaches its received_at.
C9_FailedIngestEligible ==
    IngestDispatchFailed =>
        \E n \in notifications : /\ n.id = last.nid
                                 /\ ~n.slack_sent
                                 /\ n \in OldOpenPrs(n.user_id, n.received_at)

\* C9 amended: a row whose immediate dispatch failed stays pending after the
\* delivery, and a scheduled reminder run sends a request for a row exactly if
\* the row is pending, has status opened, is at least threshold days old and its
\* owner is connected (all such rows, when the owner has at most cap of them):
\* a pending row of any other status is never retried.
C9_OnlyOpenedRetried ==
    [][ /\ (last'.op = "webhook" /\ last'.calls # <<>> /\ ~Success(last'.calls))
           => \E m \in notifications' : /\ m.id = last'.nid
                                        /\ m.id \notin Ids(notifications)
                                        /\ ~m.slack_sent
        /\ last'.op \in {"daily_pr_reminders", "urgent_pr_reminders"} =>
              \A n \in notifications :
                 LET due == /\ n.pr_status = "opened"
                            /\ ~n.slack_sent
                            /\ n.received_at <= now - last'.args[1]
                            /\ n.user_id \in slack_connections
                     mates == {k \in notifications : /\ k.user_id = n.user_id
                                                     /\ k.pr_status = "opened"
                                                     /\ ~k.slack_sent
                                                     /\ k.received_at <= now - last'.args[1]}
                 IN  /\ n.id \in Sent(last'.calls) => due
                     /\ (due /\ Cardinality(mates) <= last'.args[2])
                           => n.id \in Sent(last'.calls) ]_vars

\* C9 witness: a scheduled run has retried an opened row and left a pending
\* merged row of the same age and a connected owner alone
C9_MergedLeftPending ==
    /\ last.op = "daily_pr_reminders"
    /\ last.calls # <<>>
    /\ \E n \in notifications : /\ n.pr_status = "merged"
                                /\ ~n.slack_sent
                                /\ n.user_id \in slack_connections
                                /\ n.received_at <= now - DAILY_REMINDER_THRESHOLD
                                /\ n.id \notin Sent(last.calls)

\* C10: while a user has no Slack connection, a delivery for that user (whose
\* commit does not fail) still stores the row, makes no request and leaves it
\* pending; and a dispatch for
\* that user (trigger or retry of one of the user's rows, the user's custom
\* reminder, send-my-reminders, a reminder run) reports failure, makes no
\* request and changes no row.
C10_NoConnectionStaysPending ==
    [][ /\ ( /\ Delivered
             /\ last'.ret # "500"
             /\ last'.user \notin slack_connections
             /\ ExistingNotification(notifications, last'.args[1]) = {} )
           => /\ last'.ret = "200"
              /\ last'.calls = <<>>
              /\ notifications \subseteq notifications'
              /\ \E m \in notifications' : /\ m.id = last'.nid
                                           /\ m.id \notin Ids(notifications)
                                           /\ m.user_id = last'.user
                                           /\ m.message_id = last'.args[1]
                                           /\ ~m.slack_sent
        /\ \A r \in notifications :
              ( /\ last'.op \in SingleDispatchOps
                /\ last'.args = <<r.id>>
                /\ r.user_id \notin slack_connections )
              => /\ last'.ret \in {"False", "500"}
                 /\ last'.calls = <<>>
                 /\ notifications' = notifications
        /\ ( /\ last'.op = "custom_reminder"
             /\ last'.user \notin slack_connections
             /\ _get_old_open_prs(last'.user, last'.args[1]) # {} )
           => /\ last'.ret = "failed"
              /\ last'.calls = <<>>
              /\ notifications' = notifications
        /\ (last'.op = "send_my_reminders" /\ last'.user \notin slack_connections)
           => /\ last'.ret = "400"
              /\ last'.calls = <<>>
              /\ notifications' = notifications
        /\ last'.op \in ReminderRuns =>
              /\ \A i \in 1..Len(last'.calls) : last'.calls[i].user \in slack_connections
              /\ \A n \in notifications :
                    n.user_id \notin slack_connections => n \in notifications' ]_vars

\* C10 witness: the custom reminder of a user without a connection, who has an
\* old pending row, has reported failure without a request
C10_ReminderFailedWithoutConnection ==
    /\ last.op = "custom_reminder"
    /\ last.ret = "failed"
    /\ last.calls = <<>>
    /\ last.user \notin slack_connections
    /\ \E n \in notifications : n.user_id = last.user /\ ~n.slack_sent

\* C11: in a reminder run with threshold T and cap C every request goes to a
\* user with a Slack connection, each user gets at most one request, it covers
\* at most C rows, and every row in it was, before the run, a row of that user
\* with status opened, slack_sent false and received_at at least T days back.
C11_RunSelectsOwnOldPendingWithinCap ==
    [][ last'.op \in ReminderRuns =>
          \A i \in 1..Len(last'.calls) :
             LET c == last'.calls[i]
             IN  /\ c.user \in slack_connections
                 /\ Cardinality(c.prs) <= last'.args[2]
                 /\ \A j \in 1..Len(last'.calls) : last'.calls[j].user = c.user => j = i
                 /\ \A id \in c.prs :
                       \E n \in notifications : /\ n.id = id
                                                /\ n.user_id = c.user
                                                /\ n.pr_status = "opened"
                                                /\ ~n.slack_sent
                                                /\ n.received_at <= now - last'.args[1] ]_vars

\* C11 witness: a run with cap 1 has sent one of a user's two old pending
\* opened rows and left the other one out
C11_CapLeftOneOut ==
    /\ last.op = "trigger_all_reminders"
    /\ last.args[2] = 1
    /\ \E i \in 1..Len(last.calls) :
          /\ Cardinality(last.calls[i].prs) = 1
          /\ last.calls[i].outcome = "ok"
          /\ \E n \in notifications : /\ n.user_id = last.calls[i].user
                                      /\ n.id \notin last.calls[i].prs
                                      /\ n.pr_status = "opened"
                                      /\ ~n.slack_sent
                                      /\ n.received_at <= now - last.args[1]

\* the runs the scheduler starts by itself
ScheduledRuns == {"daily_pr_reminders", "urgent_pr_reminders", "custom_reminder"}

\* C12: no scheduled reminder run (daily, urgent, custom) sends a request for a
\* row whose slack_sent is true when the run selects its rows.
C12_ScheduledRunSkipsRelayed ==
    [][ last'.op \in ScheduledRuns =>
          \A n \in notifications : n.slack_sent => n.id \notin Sent(last'.calls) ]_vars

\* C12 witness: a scheduled run has sent a request for a user's pending row and
\* none for a relayed opened row of the same user that is as old
C12_RelayedRowLeftOut ==
    /\ last.op \in ScheduledRuns
    /\ \E i \in 1..Len(last.calls) :
          /\ last.calls[i].prs # {}
          /\ \E n \in notifications : /\ n.user_id = last.calls[i].user
                                      /\ n.slack_sent
                                      /\ n.pr_status = "opened"
                                      /\ n.received_at <= now - last.args[1]
                                      /\ n.id \notin Sent(last.calls)

\* the rows of one user
RowsOf(rows, user) == {n \in rows : n.user_id = user}

SweepOps == {"weekly_cleanup", "trigger_cleanup"}

\* C14: a retention sweep with threshold N deletes exactly the rows whose
\* status is merged or closed and whose received_at is more than N days back;
\* every other row, whatever its age, is in the table afterwards as it was,
\* and no row is added.
C14_SweepDeletesOldMergedOrClosed ==
    [][ last'.op \in SweepOps =>
          /\ notifications' \subseteq notifications
          /\ \A n \in notifications :
                n \notin notifications' <=>
                   /\ n.pr_status \in {"merged", "closed"}
                   /\ now - n.received_at > last'.args[1] ]_vars

\* C14 witness: a sweep has deleted one of two rows and kept a closed row that
\* is exactly N days old
C14_BoundaryRowKept ==
    /\ last.op \in SweepOps
    /\ next_id = 3
    /\ Cardinality(notifications) = 1
    /\ \E n \in notifications : /\ n.pr_status = "closed"
                                /\ now - n.received_at = last.args[1]

\* the address is neither the email nor the inbound_email of a user
MatchesNoUser(rcpt) ==
    \A u \in Users : rcpt # User[u].email /\ rcpt # User[u].inbound_email

\* C15 as stated: a delivery whose resolved recipient matches no user is
\* answered 404, stores nothing and makes no request.
C15_UnknownRecipientNotFound ==
    [][ (last'.op = "webhook" /\ MatchesNoUser(last'.args[2])) =>
          /\ last'.ret = "404"
          /\ notifications' = notifications
          /\ last'.calls = <<>> ]_vars

\* C15 amended: a delivery whose resolved recipient matches no user stores
\* nothing and makes no request; it is answered 404, except that a recipient
\* containing postmarkapp.com is answered as a successful Postmark test
\* before any user is looked up.
C15_UnknownRecipientNoRecord ==
    [][ (last'.op = "webhook" /\ MatchesNoUser(last'.args[2])) =>
          /\ last'.ret = IF ContainsPostmark(last'.args[2]) THEN "test" ELSE "404"
          /\ last'.user = NoUser
          /\ notifications' = notifications
          /\ next_id' = next_id
          /\ last'.calls = <<>> ]_vars

\* C15 witness: a delivery for an unknown address has been answered 404 while
\* the table holds a row
C15_StrangerAnswered404 ==
    /\ last.op = "webhook"
    /\ last.args[2] = "stranger@mail"
    /\ last.ret = "404"
    /\ notifications # {}

\* C16: when the commit of a new row fails, the delivery fails (500), the
\* table is as before and holds no row with that message id, and no request
\* has been made for it.
C16_FailedCommitLeavesNoRow ==
    [][ (Delivered /\ last'.ret = "500") =>
          /\ notifications' = notifications
          /\ ExistingNotification(notifications', last'.args[1]) = {}
          /\ last'.nid = NoId
          /\ last'.calls = <<>> ]_vars

\* C16 witness: the delivery of a new message id for a user with a Slack
\* connection has failed at the commit while the table holds another row
C16_CommitFailedForConnectedUser ==
    /\ last.op = "webhook"
    /\ last.ret = "500"
    /\ last.user \in slack_connections
    /\ notifications # {}
    /\ \A n \in notifications : n.message_id # last.args[1]

\* the operations a user issues on a row or a list of rows
SingleMutations == {"delete", "mark_slack_sent"}
BulkMutations == {"bulk_delete", "bulk_mark"}

\* C17: a delete, mark, bulk delete or bulk mark issued by user U, for any id
\* or list of ids, leaves every row of another user in the table as it was
\* and adds none; an id that is not the id of a row of U is answered 404 (in
\* a bulk operation: listed in failed_ids), and the rows of U that are named
\* are the ones deleted or marked.
C17_MutationsStayWithOwner ==
    [][ /\ last'.op \in SingleMutations \cup BulkMutations =>
              /\ \A n \in notifications : n.user_id # last'.user => n \in notifications'
              /\ \A m \in notifications' : m.user_id # last'.user => m \in notifications
        /\ last'.op \in SingleMutations =>
              LET mine == {n \in notifications : /\ n.id = last'.args[1]
                                                 /\ n.user_id = last'.user}
              IN  /\ mine = {} => (last'.ret = "404" /\ notifications' = notifications)
                  /\ mine # {} =>
                        /\ last'.ret = "200"
                        /\ notifications' = IF last'.op = "delete"
                                             THEN notifications \ mine
                                             ELSE MarkRows(notifications, Ids(mine))
        /\ last'.op \in BulkMutations =>
              LET mine == {n \in notifications : /\ n.id \in last'.args[1]
                                                 /\ n.user_id = last'.user}
              IN  /\ last'.ret.failed_ids = last'.args[1] \ Ids(mine)
                  /\ last'.ret.count = Cardinality(mine)
                  /\ notifications' = IF last'.op = "bulk_delete"
                                       THEN notifications \ mine
                                       ELSE MarkRows(notifications, Ids(mine)) ]_vars

\* C17 witness: a bulk delete naming a row of the caller and a row of the
\* other user has deleted the first and reported the second as failed, and
\* the other user's pending row is still there
C17_ForeignIdReportedFailed ==
    /\ last.op = "bulk_delete"
    /\ last.ret.count = 1
    /\ \E n \in notifications : /\ n.id \in last.ret.failed_ids
                                /\ n.user_id # last.user
                                /\ ~n.slack_sent

\* the operations that send a message and then mark its rows
RaceOps == {"retry_single", "daily_pr_reminders", "send_my_reminders"}

\* C18: when a manual retry, a reminder run and send-my-reminders work on the
\* same pending row side by side, in every interleaving an operation whose
\* own message was sent reports success (none fails because the other has
\* marked the row first), a run always ends True, and every row of a message
\* that was sent is relayed when its operation has ended: the row ends with
\* slack_sent true whenever at least one of the messages succeeded.
C18_RaceNeitherFailsRowRelayed ==
    \A w \in Workers :
       (inflight[w].pc = "done" /\ inflight[w].op \in RaceOps) =>
          /\ \A id \in inflight[w].sent :
                \E n \in notifications : n.id = id /\ n.slack_sent
          /\ inflight[w].sent # {} => inflight[w].ret \in {"True", "200"}
          /\ inflight[w].op = "daily_pr_reminders" => inflight[w].ret = "True"

\* C18 witness: a retry has sent its message for a row that was pending when
\* it looked, and before it marks the row a reminder run has selected, sent
\* and marked the same row and ended
C18_RetryMarksAfterRun ==
    /\ inflight["w1"].op = "retry_single"
    /\ inflight["w1"].pc = "retry_mark"
    /\ inflight["w2"].op = "daily_pr_reminders"
    /\ inflight["w2"].pc = "done"
    /\ inflight["w1"].nid \in inflight["w2"].sent
    /\ \E n \in notifications : n.id = inflight["w1"].nid /\ n.slack_sent

\* C19 as stated: a summary run sends no digest to a connected user without an
\* opened row and exactly one digest to a connected user with opened rows.
C19_DigestIffOpenPrs ==
    [][ last'.op = "daily_summaries" =>
          \A u \in slack_connections :
             LET open == {n \in notifications : n.user_id = u /\ n.pr_status = "opened"}
                 mine == {i \in 1..Len(last'.calls) : /\ last'.calls[i].user = u
                                                       /\ last'.calls[i].kind = "summary"}
             IN  Cardinality(mine) = IF open = {} THEN 0 ELSE 1 ]_vars

\* whole days since receipt: the k with k days <= now - received_at < k + 1 days
AgeInDays(n) ==
    CHOOSE k \in (0 - 2)..12 :
        /\ k * HoursPerDay <= now - n.received_at
        /\ now - n.received_at < (k + 1) * HoursPerDay

\* the group of the claim for an age in whole days
BucketOf(age) ==
    IF age <= 2 THEN "recent" ELSE IF age <= 7 THEN "getting-old" ELSE "urgent"

\* the names the two operations give to the groups
BucketName ==
    [x \in {"Recent (1-2 days)", "Getting Old (3-7 days)", "Urgent (8+ days)",
             "recent", "old", "urgent"} |->
        IF x \in {"Recent (1-2 days)", "recent"} THEN "recent"
        ELSE IF x \in {"Getting Old (3-7 days)", "old"} THEN "getting-old"
        ELSE "urgent"]

\* C20: the age groups partition a batch by whole days since receipt: every
\* row of the batch is in exactly one group, recent when its age is at most 2
\* days, getting-old when it is 3 to 7 days, urgent when it is 8 days or more;
\* no returned group is empty; the reminder preview reports the same group as
\* the urgency of each row it lists.
C20_AgeGroupsPartitionByWholeDays ==
    [][ /\ last'.op = "group_prs_by_age" =>
              /\ \A g \in DOMAIN last'.ret : last'.ret[g] # {}
              /\ \A n \in notifications :
                    n.id \in last'.args[1] =>
                       /\ Cardinality({g \in DOMAIN last'.ret : n.id \in last'.ret[g]}) = 1
                       /\ \A g \in DOMAIN last'.ret :
                             n.id \in last'.ret[g] => BucketName[g] = BucketOf(AgeInDays(n))
        /\ last'.op = "reminder_preview" =>
              \A n \in notifications :
                 n.id \in DOMAIN last'.ret =>
                    BucketName[last'.ret[n.id]] = BucketOf(AgeInDays(n)) ]_vars

\* C20 witness: a batch of a row two days and 23 hours old and a row exactly
\* eight days old has been grouped into recent and urgent
C20_BoundaryAgesGrouped ==
    /\ last.op = "group_prs_by_age"
    /\ DOMAIN last.ret = {"Recent (1-2 days)", "Urgent (8+ days)"}
    /\ \E n \in notifications : /\ now - n.received_at = 71
                                /\ n.id \in last.ret["Recent (1-2 days)"]
    /\ \E n \in notifications : /\ now - n.received_at = 192
                                /\ n.id \in last.ret["Urgent (8+ days)"]

\* C30: a daily summary run creates no row, deletes no row and changes no
\* field of a row, whatever its messages end in, so every reminder selection
\* (any user, any threshold) is the same after the run as before it.
C30_SummaryRunLeavesStore ==
    [][ last'.op = "daily_summaries" =>
          /\ notifications' = notifications
          /\ next_id' = next_id
          /\ \A u \in Users : \A T \in 0..URGENT_REMINDER_THRESHOLD :
                _get_old_open_prs(u, T)' = _get_old_open_prs(u, T) ]_vars

\* C30 witness: a summary run has ended while a user with a connection has an
\* old opened row that is still pending and a relayed one
C30_SummaryRanOverPendingRows ==
    /\ last.op = "daily_summaries"
    /\ \E u \in slack_connections :
          /\ \E n \in notifications : n.user_id = u /\ n.pr_status = "opened" /\ ~n.slack_sent
          /\ \E n \in notifications : n.user_id = u /\ n.slack_sent

\* C28: the row a webhook delivery answers with (the notification_id of the
\* response, the row create_pr_notification returned) belongs to the user the
\* delivery was resolved to, also when a row with the same message id was
\* already stored.
C28_ReturnedRowOwnedByCaller ==
    [][ (last'.op = "webhook" /\ last'.nid # NoId) =>
          \E n \in notifications' : n.id = last'.nid /\ n.user_id = last'.user ]_vars

\* C27: in a reminder run with threshold T and cap C, a connected user with
\* more than C selected rows gets one request for exactly C of them, no row left
\* out was received before a row in the request, and every row left out is
\* stored unchanged after the run (slack_sent false) and is selected again.
C27_CapTakesOldestLeavesRestPending ==
    [][ last'.op \in ReminderRuns =>
          \A u \in slack_connections :
             LET eligible == _get_old_open_prs(u, last'.args[1])
                 C == last'.args[2]
             IN  Cardinality(eligible) > C =>
                   \E i \in 1..Len(last'.calls) :
                      LET c == last'.calls[i]
                          rest == {n \in eligible : n.id \notin c.prs}
                      IN  /\ c.user = u
                          /\ c.prs \subseteq Ids(eligible)
                          /\ Cardinality(c.prs) = C
                          /\ \A a \in eligible \ rest, b \in rest :
                                a.received_at <= b.received_at
                          /\ \A b \in rest :
                                /\ b \in notifications'
                                /\ ~b.slack_sent
                                /\ \E T \in ThresholdInputs \cup {DAILY_REMINDER_THRESHOLD,
                                                              URGENT_REMINDER_THRESHOLD} :
                                      /\ T = last'.args[1]
                                      /\ b \in _get_old_open_prs(u, T)' ]_vars

\* C27 witness: a run with cap 1 over two selected rows of one user received
\* at different times has sent and marked the older one; the newer one is
\* still pending
C27_OlderSentNewerPending ==
    /\ last.op = "trigger_all_reminders"
    /\ last.args[2] = 1
    /\ \E i \in 1..Len(last.calls) :
          /\ last.calls[i].outcome = "ok"
          /\ \E a, b \in notifications :
                /\ a.user_id = last.calls[i].user /\ b.user_id = a.user_id
                /\ last.calls[i].prs = {a.id}
                /\ a.slack_sent /\ ~b.slack_sent
                /\ a.pr_status = "opened" /\ b.pr_status = "opened"
                /\ a.received_at < b.received_at
                /\ b.received_at <= now - last.args[1]

\* how often a job id is registered
Registered(jobs, id) == Cardinality({i \in 1..Len(jobs) : jobs[i] = id})

\* C29: start() on a running scheduler and stop() on a stopped one change
\* nothing; after every call each of the four job ids is registered at most
\* once, in the job store and in the reported status; is_running becomes true
\* by a start() that went through, false by a stop() that went through, and
\* is left as it was by every other step.
C29_StartStopIdempotent ==
    [][ /\ (last'.op = "scheduler_start" /\ scheduler.is_running) =>
              /\ scheduler' = scheduler
              /\ notifications' = notifications
        /\ (last'.op = "scheduler_stop" /\ ~scheduler.is_running) =>
              /\ scheduler' = scheduler
              /\ notifications' = notifications
        /\ \A i \in 1..Len(JobIds) :
              /\ Registered(scheduler'.jobs, JobIds[i]) <= 1
              /\ Registered(get_scheduler_status'.jobs, JobIds[i]) <= 1
              /\ scheduler'.is_running => Registered(scheduler'.jobs, JobIds[i]) = 1
        /\ get_scheduler_status'.running = scheduler'.is_running
        /\ scheduler'.is_running =
              IF last'.op = "scheduler_start" /\ last'.ret = "started" THEN TRUE
              ELSE IF last'.op = "scheduler_stop" /\ last'.ret = "stopped" THEN FALSE
              ELSE scheduler.is_running ]_vars

\* C29 witness: start() was called on a running scheduler that holds the four
\* jobs
C29_StartedTwice ==
    /\ last.op = "scheduler_start"
    /\ last.ret = "already running"
    /\ scheduler.is_running
    /\ Len(scheduler.jobs) = Len(JobIds)

\* the rows of a list are in this order of this column
InOrder(rows, column, direction) ==
    \A i, j \in 1..Len(rows) :
       i < j => IF direction = "asc"
                THEN Key(rows[i], column) <= Key(rows[j], column)
                ELSE Key(rows[i], column) >= Key(rows[j], column)

\* C26 as stated: GET /notifications with a sort field outside the allow-list
\* does not fail, and lists the rows by received_at, newest first.
C26_UnknownSortFieldIgnored ==
    [][ (last'.op = "get_pr_notifications" /\ last'.args.sort_by \notin valid_sort_fields) =>
          /\ last'.ret.status = "200"
          /\ InOrder(last'.ret.notifications, "received_at", "desc") ]_vars

\* C26 amended: GET /notifications with a sort field outside the allow-list
\* (or a sort order other than asc and desc) answers 400 and lists nothing;
\* with a listed field it lists rows of the caller in the order of that field,
\* ascending for asc and descending for desc. _apply_sorting on its own orders
\* by received_at when the name is no attribute of a row, in the requested
\* direction: ascending for asc, descending for anything else.
C26_UnknownSortFieldRejected ==
    [][ /\ last'.op = "get_pr_notifications" =>
              IF \/ last'.args.sort_by \notin valid_sort_fields
                 \/ last'.args.sort_order \notin {"asc", "desc"}
              THEN /\ last'.ret.status = "400"
                   /\ last'.ret.notifications = <<>>
              ELSE /\ last'.ret.status = "200"
                   /\ \A i \in 1..Len(last'.ret.notifications) :
                         /\ last'.ret.notifications[i] \in notifications
                         /\ last'.ret.notifications[i].user_id = last'.user
                   /\ InOrder(last'.ret.notifications, last'.args.sort_by,
                              last'.args.sort_order)
        /\ (last'.op = "apply_sorting" /\ last'.args.sort_by \notin RowAttributes) =>
              InOrder(last'.ret.notifications, "received_at",
                      IF last'.args.sort_order = "asc" THEN "asc" ELSE "desc")
        /\ last'.op \in {"get_pr_notifications", "apply_sorting"} =>
              notifications' = notifications ]_vars

\* C26 witness: a request sorted by a name outside the allow-list was answered
\* 400 for a user who has two rows received at different times
C26_UnknownFieldAnswered400 ==
    /\ last.op = "get_pr_notifications"
    /\ last.args.sort_by = "priority"
    /\ last.args.sort_order = "desc"
    /\ last.ret.status = "400"
    /\ \E a, b \in notifications : /\ a.user_id = last.user /\ b.user_id = last.user
                                    /\ a.received_at < b.received_at

\* how many of the indicators the text contains, letters compared without case
IndicatorsIn(text) ==
    Cardinality({i \in 1..Len(forwarded_indicators) :
                    In(lower(forwarded_indicators[i]), lower(text))})

\* C21 as stated: a message is classified forwarded exactly when its subject
\* begins with "Fwd:" in any letter case, or its plain-text body contains at
\* least 3 of the 7 indicators.
C21_ForwardedIffAnyCasePrefixOrThree ==
    last.op = "is_forwarded_email" =>
        (last.ret = "True" <=>
            \/ startswith(lower(last.args.Subject), "fwd:")
            \/ /\ last.args.TextBody # None
               /\ IndicatorsIn(last.args.TextBody) >= 3)

\* C21 amended: a message is classified forwarded exactly when its subject
\* begins with "Fwd:" written just so, or its plain-text body contains, in any
\* letter case, at least 3 of the 7 indicators; with 2 or fewer indicators and
\* no such prefix it is classified not forwarded.
C21_ForwardedIffExactPrefixOrThree ==
    last.op = "is_forwarded_email" =>
        /\ last.ret \in {"True", "False"}
        /\ last.ret = "True" <=>
              \/ startswith(last.args.Subject, "Fwd:")
              \/ /\ last.args.TextBody # None
                 /\ IndicatorsIn(last.args.TextBody) >= 3
        /\ ( /\ ~startswith(last.args.Subject, "Fwd:")
             /\ last.args.TextBody # None => IndicatorsIn(last.args.TextBody) <= 2 )
           => last.ret = "False"

\* C21 witness: a message whose subject begins with FWD: in capitals and whose
\* body contains exactly 2 indicators was classified not forwarded
C21_CapitalPrefixTwoIndicatorsNotForwarded ==
    /\ last.op = "is_forwarded_email"
    /\ startswith(last.args.Subject, "FWD:")
    /\ last.args.TextBody # None
    /\ IndicatorsIn(last.args.TextBody) = 2
    /\ last.ret = "False"

\* the candidates the patterns find in the text body, in pattern order
Candidates(webhook_data) ==
    LET content == IF Truthy(webhook_data.TextBody) THEN webhook_data.TextBody ELSE ""
        found(i) == findall(recipient_patterns[i], content, TRUE)
        StripEach(all) == [i \in 1..Len(all) |-> strip(all[i])]
    IN  StripEach(found(1)) \o StripEach(found(2)) \o StripEach(found(3)) \o
        StripEach(found(4)) \o StripEach(found(5)) \o StripEach(found(6))

\* C22: the recipient of a message that is not forwarded is the recipient the
\* relay supplied, verbatim; of a forwarded message it is the first candidate,
\* in pattern order over the text body, that has the shape of an address, else
\* the address found in the text of the HTML body, else the recipient the relay
\* supplied; an address is returned in every case.
C22_RecipientFallbackChain ==
    last.op = "extract_recipient_email" =>
        \E candidates \in {Candidates(last.args)} :
        \E html \in {IF Truthy(last.args.HtmlBody)
                      THEN _extract_recipient_from_html(last.args.HtmlBody) ELSE None} :
            LET w == last.args
                valid == {i \in 1..Len(candidates) : _is_valid_email(candidates[i])}
            IN  /\ last.ret # None
                /\ last.ret = IF ~_is_forwarded_email(w) THEN w.OriginalRecipient
                              ELSE IF valid # {}
                              THEN candidates[CHOOSE i \in valid : \A j \in valid : i <= j]
                              ELSE IF Truthy(html) THEN html
                              ELSE w.OriginalRecipient

\* C22 witness: a forwarded message whose text body names only a candidate
\* without the shape of an address was resolved to the address of its HTML body
C22_InvalidCandidateSkippedHtmlUsed ==
    /\ last.op = "extract_recipient_email"
    /\ _is_forwarded_email(last.args)
    /\ Truthy(last.args.HtmlBody)
    /\ last.ret \notin {None, last.args.OriginalRecipient}
    /\ last.ret = _extract_recipient_from_html(last.args.HtmlBody)
    /\ \E candidates \in {Candidates(last.args)} :
          /\ candidates # <<>>
          /\ \A i \in 1..Len(candidates) : ~_is_valid_email(candidates[i])

\* the subject and the text body joined by a blank, in lower case
StatusContent(webhook_data) ==
    lower(webhook_data.Subject \o " " \o
          (IF webhook_data.TextBody = None THEN "" ELSE webhook_data.TextBody))

\* C23: the status is merged if a merged-keyword occurs in subject or body,
\* else closed if a closed-keyword occurs, else opened if an opened- or
\* new-keyword occurs, else updated if an updated-keyword occurs, else opened;
\* it is always one of opened, merged, closed, updated.
C23_StatusPrecedence ==
    last.op = "extract_pr_status" =>
        \E content \in {StatusContent(last.args)} :
            /\ last.ret \in {"opened", "merged", "closed", "updated"}
            /\ last.ret =
                  IF In("merged", content) \/ In("merge", content) THEN "merged"
                  ELSE IF In("closed", content) \/ In("close", content) THEN "closed"
                  ELSE IF \/ In("opened", content) \/ In("open", content)
                          \/ In("new pull request", content) THEN "opened"
                  ELSE IF In("updated", content) \/ In("update", content) THEN "updated"
                  ELSE "opened"

\* C23 witness: a message with an opened-keyword in its subject and a
\* merged-keyword in its body was given the status merged
C23_MergedBeforeOpened ==
    /\ last.op = "extract_pr_status"
    /\ In("open", lower(last.args.Subject))
    /\ last.args.TextBody # None
    /\ In("merged", lower(last.args.TextBody))
    /\ last.ret = "merged"

\* C24: extract_pr_data returns a result in every case; when a step of the
\* extraction raises, the title of the result is the raw subject and its
\* forwarded flag is the classification of the message, computed on its own.
C24_FallbackResultOnRaise ==
    last.op = "extract_pr_data" =>
        /\ DOMAIN last.ret = {"repo_name", "pr_title", "pr_link", "pr_number", "pr_status",
                              "is_forwarded", "original_sender"}
        /\ last.ret.is_forwarded \in BOOLEAN
        /\ last.args.raises =>
              /\ last.ret.pr_title = last.args.webhook_data.Subject
              /\ last.ret.is_forwarded <=>
                    \/ startswith(last.args.webhook_data.Subject, "Fwd:")
                    \/ /\ last.args.webhook_data.TextBody # None
                       /\ IndicatorsIn(last.args.webhook_data.TextBody) >= 3

\* C24 witness: a step raised for a forwarded message whose subject carries a
\* prefix and a repository; the result has the whole subject as its title and
\* the forwarded flag set
C24_RaisedForForwardedMessage ==
    /\ last.op = "extract_pr_data"
    /\ last.args.raises
    /\ startswith(last.args.webhook_data.Subject, "Fwd: [")
    /\ last.ret.pr_title = last.args.webhook_data.Subject
    /\ last.ret.is_forwarded
    /\ last.ret.pr_status = None

====
